---- MODULE Spec2Model ----
(***************************************************************************)
(* Model of the Portfolio / Position ledger of src/trading_execution.py.   *)
(*                                                                         *)
(* Prices, quantities and cash are integers.  A stop level produced by the *)
(* trailing rule is current_price * (1 -/+ percentage), which is not an    *)
(* integer; the field stop_loss therefore holds the stop level multiplied  *)
(* by PctDen (the denominator of the trailing percentage), so that every   *)
(* comparison of the code is exact.  pnl_percentage holds the percentage   *)
(* multiplied by entry_price for the same reason.                          *)
(***************************************************************************)
EXTENDS Integers, Sequences, FiniteSets

VARIABLES cash, positions, closed_positions, equity_curve, transactions,
          trade_log, trailing, ops, prev_price, threads,
          risk_manager, order_manager, trading_executor, data_collector

vars == <<cash, positions, closed_positions, equity_curve, transactions,
          trade_log, trailing, ops, prev_price, threads,
          risk_manager, order_manager, trading_executor, data_collector>>

\* the components start_platform builds next to the Portfolio
exec_vars == <<risk_manager, order_manager, trading_executor>>
\* the Portfolio, its call history and its callers
portfolio_vars == <<cash, positions, closed_positions, equity_curve,
                    transactions, trade_log, trailing, prev_price, threads>>

\* ---------------------------------------------------------------- bounds
MaxOps == 3
\* calls in one behaviour of an order's life
MaxLifeOps == 6

\* ------------------------------------------------------------- constants
initial_capital == 100000

\* EXIT_RULES["stop_loss"]["percentage"] = PctNum / PctDen
PctNum == 1
PctDen == 16

\* Python's None, for the optional stop_loss / take_profit / exit fields.
\* Every price of the model is positive, so -1 is no price.
None == -1

Tickers == {"AAPL", "MSFT"}

\* prices passed to update_position
Prices == {140, 145, 150, 160}

\* prices passed to close_position and found in update_portfolio snapshots
SnapPrices == {140, 160}

\* the positions handed to add_position:
\* <<quantity, entry_price, stop_loss, take_profit>>
Templates ==
    { <<10, 150, 145, None>>,
      <<10, 150, 130, 160>>,
      <<-5, 150, 155, None>>,
      <<-5, 150, None, 145>> }

\* ------------------------------------------------------------- Position
\* Position.__init__
Position(ticker, quantity, entry_price, entry_time, stop_loss, take_profit) ==
    [ ticker         |-> ticker,
      quantity       |-> quantity,
      entry_price    |-> entry_price,
      entry_time     |-> entry_time,
      stop_loss      |-> IF stop_loss = None THEN None ELSE stop_loss * PctDen,
      take_profit    |-> take_profit,
      exit_price     |-> None,
      exit_time      |-> None,
      pnl            |-> 0,
      pnl_percentage |-> 0,
      status         |-> "open" ]

\* Position.update_stop_loss; price is the new level times PctDen
update_stop_loss(position, price) ==
    [position EXCEPT !.stop_loss = price]

\* Position.update_take_profit
update_take_profit(position, price) ==
    [position EXCEPT !.take_profit = price]

\* Position.close without the final status assignment
close_keeps_status(position, exit_price, exit_time) ==
    [position EXCEPT
        !.exit_price     = exit_price,
        !.exit_time      = exit_time,
        !.pnl            = (exit_price - position.entry_price) * position.quantity,
        !.pnl_percentage = (exit_price - position.entry_price) * 100
                             * (IF position.quantity > 0 THEN 1 ELSE -1)]

\* Position.close with the pnl taken from the seller's side
close_pnl_reversed(position, exit_price, exit_time) ==
    [position EXCEPT
        !.exit_price     = exit_price,
        !.exit_time      = exit_time,
        !.pnl            = (position.entry_price - exit_price) * position.quantity,
        !.pnl_percentage = (exit_price - position.entry_price) * 100
                             * (IF position.quantity > 0 THEN 1 ELSE -1),
        !.status         = "closed"]

\* Position.close without the direction factor of pnl_percentage
close_pct_undirected(position, exit_price, exit_time) ==
    [position EXCEPT
        !.exit_price     = exit_price,
        !.exit_time      = exit_time,
        !.pnl            = (exit_price - position.entry_price) * position.quantity,
        !.pnl_percentage = (exit_price - position.entry_price) * 100,
        !.status         = "closed"]

\* Position.close
close(position, exit_price, exit_time) ==
    [position EXCEPT
        !.exit_price     = exit_price,
        !.exit_time      = exit_time,
        !.pnl            = (exit_price - position.entry_price) * position.quantity,
        !.pnl_percentage = (exit_price - position.entry_price) * 100
                             * (IF position.quantity > 0 THEN 1 ELSE -1),
        !.status         = "closed"]

\* ------------------------------------------------- the positions dict
\* self.positions is a dict: a sequence of Position records in insertion
\* order, with at most one record per ticker.
Keys(d) == [i \in 1..Len(d) |-> d[i].ticker]

HasKey(d, ticker) == \E i \in 1..Len(d) : d[i].ticker = ticker

IndexOf(d, ticker) == CHOOSE i \in 1..Len(d) : d[i].ticker = ticker

Get(d, ticker) == d[IndexOf(d, ticker)]

\* d[ticker] = position: an existing key keeps its place
DictSet(d, ticker, position) ==
    IF HasKey(d, ticker)
    THEN [d EXCEPT ![IndexOf(d, ticker)] = position]
    ELSE Append(d, position)

\* del d[ticker]
DictDel(d, ticker) ==
    LET k == IndexOf(d, ticker)
    IN  [i \in 1..(Len(d) - 1) |-> IF i < k THEN d[i] ELSE d[i + 1]]

\* ------------------------------------------------------------ Portfolio
\* the Portfolio object as a record (self)
Self ==
    [ cash             |-> cash,
      positions        |-> positions,
      closed_positions |-> closed_positions,
      equity_curve     |-> equity_curve,
      transactions     |-> transactions,
      trade_log        |-> trade_log ]

\* ------------------------------------------------------ data collection
\* config.ERROR_HANDLING
ERROR_HANDLING ==
    [ max_retries |-> 3, retry_delay |-> 5, fallback_source |-> TRUE ]

\* config.DATA_SOURCES, the two entries _fetch_ticker_data reads
DATA_SOURCES ==
    [ primary |-> "yahoo_finance", secondary |-> "polygon" ]

\* DataCollector.__init__ and the module-level yahoo_client (TRUE when the
\* client was imported, FALSE when it is None), with the position of the one
\* _fetch_ticker_data call in flight: attempt is the loop variable, fetches
\* the calls made to the source fetchers, in order, as <<stage, source,
\* outcome>>, fallback_entered whether the fallback block was reached.
DataCollector(data_sources, error_handling, yahoo_client) ==
    [ data_sources     |-> data_sources,
      error_handling   |-> error_handling,
      yahoo_client     |-> yahoo_client,
      pc               |-> "idle",
      attempt          |-> 0,
      fetches          |-> << >>,
      fallback_entered |-> FALSE,
      result           |-> "unset" ]

\* the if / elif chain of _fetch_ticker_data: the source has a fetcher
Dispatches(self, source) ==
    \/ source = "yahoo_finance" /\ self.yahoo_client
    \/ source = "polygon"
    \/ source = "alpha_vantage"

\* what a source fetcher can do: return a DataFrame, return None, or raise.
\* _fetch_from_yahoo calls the client outside any try; _fetch_from_polygon
\* and _fetch_from_alpha_vantage catch their request errors and return None.
FetchOutcomes(source) ==
    IF source = "yahoo_finance"
    THEN {"DataFrame", "None", "raise"}
    ELSE {"DataFrame", "None"}

\* _fetch_ticker_data: entry
fetch_ticker_data(self) ==
    [self EXCEPT !.pc = "primary", !.attempt = 0, !.fetches = << >>,
                 !.fallback_entered = FALSE, !.result = "unset"]

\* _fetch_ticker_data: one pass of `for attempt in range(max_retries)`, or
\* the exit of the loop.  A fetcher that returns, returns from the function
\* with its value, None included; one that raises is retried after the delay;
\* an unknown source breaks out of the loop.
primary_attempt(self, outcome) ==
    LET primary_source == self.data_sources.primary
    IN  IF self.attempt >= self.error_handling.max_retries
        THEN [self EXCEPT !.pc = "fallback"]
        ELSE IF ~Dispatches(self, primary_source)
        THEN [self EXCEPT !.pc = "fallback"]
        ELSE IF outcome = "raise"
        THEN [self EXCEPT
                !.fetches = Append(@, <<"primary", primary_source, outcome>>),
                !.attempt = @ + 1]
        ELSE [self EXCEPT
                !.fetches = Append(@, <<"primary", primary_source, outcome>>),
                !.pc      = "returned",
                !.result  = outcome]

\* _fetch_ticker_data: the fallback block and the final return None
fallback(self, outcome) ==
    LET secondary_source == self.data_sources.secondary
    IN  IF ~self.error_handling.fallback_source
        THEN [self EXCEPT !.pc = "returned", !.result = "None"]
        ELSE IF ~Dispatches(self, secondary_source)
        THEN [self EXCEPT !.pc = "returned", !.result = "None",
                          !.fallback_entered = TRUE]
        ELSE [self EXCEPT
                !.fetches = Append(@, <<"secondary", secondary_source, outcome>>),
                !.fallback_entered = TRUE,
                !.pc      = "returned",
                !.result  = IF outcome = "raise" THEN "None" ELSE outcome]

\* the source names a DataCollector is configured with: two with a fetcher
\* and one without
SourceNames == {"yahoo_finance", "polygon", "finnhub"}

\* the retry limits a DataCollector is configured with
RetryCounts == {1, ERROR_HANDLING.max_retries}

\* Portfolio.__init__
NewPortfolio ==
    [ cash             |-> initial_capital,
      positions        |-> << >>,
      closed_positions |-> << >>,
      equity_curve     |-> << >>,
      transactions     |-> << >>,
      trade_log        |-> << >> ]

\* add_position without its trade_logger line
add_position_no_trade_line(self, position) ==
    [self EXCEPT
        !.positions    = DictSet(self.positions, position.ticker, position),
        !.cash         = self.cash - position.quantity * position.entry_price,
        !.transactions = Append(self.transactions,
                            [ type      |-> "open",
                              ticker    |-> position.ticker,
                              quantity  |-> position.quantity,
                              price     |-> position.entry_price,
                              timestamp |-> position.entry_time,
                              value     |-> position.quantity * position.entry_price ])]

\* Portfolio.add_position
add_position(self, position) ==
    [self EXCEPT
        !.positions    = DictSet(self.positions, position.ticker, position),
        !.cash         = self.cash - position.quantity * position.entry_price,
        !.transactions = Append(self.transactions,
                            [ type      |-> "open",
                              ticker    |-> position.ticker,
                              quantity  |-> position.quantity,
                              price     |-> position.entry_price,
                              timestamp |-> position.entry_time,
                              value     |-> position.quantity * position.entry_price ]),
        !.trade_log    = Append(self.trade_log,
                            <<"OPEN", position.ticker, position.quantity,
                              position.entry_price, position.entry_time>>)]

\* the body of close_position without the final del self.positions[ticker]
DoClose_keeps_open(self, ticker, exit_price, exit_time) ==
    LET position == close(Get(self.positions, ticker), exit_price, exit_time)
    IN  [self EXCEPT
           !.cash             = self.cash + position.quantity * exit_price,
           !.closed_positions = Append(self.closed_positions, position),
           !.transactions     = Append(self.transactions,
                                   [ type           |-> "close",
                                     ticker         |-> position.ticker,
                                     quantity       |-> position.quantity,
                                     price          |-> exit_price,
                                     timestamp      |-> exit_time,
                                     value          |-> position.quantity * exit_price,
                                     pnl            |-> position.pnl,
                                     pnl_percentage |-> position.pnl_percentage ]),
           !.trade_log        = Append(self.trade_log,
                                   <<"CLOSE", position.ticker, position.quantity,
                                     exit_price, exit_time, position.pnl,
                                     position.pnl_percentage>>)]

\* the body of close_position crediting the size of the position, not its
\* signed quantity
DoClose_credits_size(self, ticker, exit_price, exit_time) ==
    LET position == close(Get(self.positions, ticker), exit_price, exit_time)
        size     == IF position.quantity < 0
                    THEN 0 - position.quantity ELSE position.quantity
    IN  [self EXCEPT
           !.cash             = self.cash + size * exit_price,
           !.closed_positions = Append(self.closed_positions, position),
           !.transactions     = Append(self.transactions,
                                   [ type           |-> "close",
                                     ticker         |-> position.ticker,
                                     quantity       |-> position.quantity,
                                     price          |-> exit_price,
                                     timestamp      |-> exit_time,
                                     value          |-> position.quantity * exit_price,
                                     pnl            |-> position.pnl,
                                     pnl_percentage |-> position.pnl_percentage ]),
           !.trade_log        = Append(self.trade_log,
                                   <<"CLOSE", position.ticker, position.quantity,
                                     exit_price, exit_time, position.pnl,
                                     position.pnl_percentage>>),
           !.positions        = DictDel(self.positions, ticker)]

\* Portfolio.close_position, after the guard: the ticker is open
DoClose(self, ticker, exit_price, exit_time) ==
    LET position == close(Get(self.positions, ticker), exit_price, exit_time)
    IN  [self EXCEPT
           !.cash             = self.cash + position.quantity * exit_price,
           !.closed_positions = Append(self.closed_positions, position),
           !.transactions     = Append(self.transactions,
                                   [ type           |-> "close",
                                     ticker         |-> position.ticker,
                                     quantity       |-> position.quantity,
                                     price          |-> exit_price,
                                     timestamp      |-> exit_time,
                                     value          |-> position.quantity * exit_price,
                                     pnl            |-> position.pnl,
                                     pnl_percentage |-> position.pnl_percentage ]),
           !.trade_log        = Append(self.trade_log,
                                   <<"CLOSE", position.ticker, position.quantity,
                                     exit_price, exit_time, position.pnl,
                                     position.pnl_percentage>>),
           !.positions        = DictDel(self.positions, ticker)]

\* close_position writing its transaction record before looking the ticker up
close_position_logs_first(self, ticker, exit_price, exit_time) ==
    IF ~HasKey(self.positions, ticker)
    THEN [self EXCEPT
            !.transactions = Append(self.transactions,
                                [ type      |-> "close",
                                  ticker    |-> ticker,
                                  price     |-> exit_price,
                                  timestamp |-> exit_time ])]
    ELSE DoClose(self, ticker, exit_price, exit_time)

\* Portfolio.close_position
close_position(self, ticker, exit_price, exit_time) ==
    IF ~HasKey(self.positions, ticker)
    THEN self
    ELSE DoClose(self, ticker, exit_price, exit_time)

\* the stop-loss test with strict comparisons
StopLossHit_strict(position, current_price) ==
    /\ position.stop_loss # None
    /\ \/ position.quantity > 0 /\ current_price * PctDen < position.stop_loss
       \/ position.quantity < 0 /\ current_price * PctDen > position.stop_loss

\* the stop-loss test of update_position
StopLossHit(position, current_price) ==
    /\ position.stop_loss # None
    /\ \/ position.quantity > 0 /\ current_price * PctDen <= position.stop_loss
       \/ position.quantity < 0 /\ current_price * PctDen >= position.stop_loss

\* the take-profit test with the long rule applied to both directions
TakeProfitHit_long_only(position, current_price) ==
    /\ position.take_profit # None
    /\ current_price >= position.take_profit

\* the take-profit test of update_position
TakeProfitHit(position, current_price) ==
    /\ position.take_profit # None
    /\ \/ position.quantity > 0 /\ current_price >= position.take_profit
       \/ position.quantity < 0 /\ current_price <= position.take_profit

\* the trailing-stop branch with the tightening tests turned around
TrailStop_reversed(position, current_price, trail) ==
    IF trail /\ position.stop_loss # None
    THEN IF position.quantity > 0
         THEN LET new_stop == current_price * (PctDen - PctNum)
              IN  IF new_stop < position.stop_loss
                  THEN update_stop_loss(position, new_stop)
                  ELSE position
         ELSE LET new_stop == current_price * (PctDen + PctNum)
              IN  IF new_stop > position.stop_loss
                  THEN update_stop_loss(position, new_stop)
                  ELSE position
    ELSE position

\* the trailing-stop branch with a trailing percentage of 0: the candidate
\* stop is the current price
TrailStop_at_price(position, current_price, trail) ==
    IF trail /\ position.stop_loss # None
    THEN IF position.quantity > 0
         THEN LET new_stop == current_price * PctDen
              IN  IF new_stop > position.stop_loss
                  THEN update_stop_loss(position, new_stop)
                  ELSE position
         ELSE LET new_stop == current_price * PctDen
              IN  IF new_stop < position.stop_loss
                  THEN update_stop_loss(position, new_stop)
                  ELSE position
    ELSE position

\* the trailing-stop branch giving a position without a stop its first stop
TrailStop_seeds_stop(position, current_price, trail) ==
    IF trail
    THEN LET new_stop == IF position.quantity > 0
                         THEN current_price * (PctDen - PctNum)
                         ELSE current_price * (PctDen + PctNum)
         IN  IF \/ position.stop_loss = None
                \/ position.quantity > 0 /\ new_stop > position.stop_loss
                \/ position.quantity < 0 /\ new_stop < position.stop_loss
             THEN update_stop_loss(position, new_stop)
             ELSE position
    ELSE position

\* the trailing-stop branch without the tightening tests
TrailStop_unconditional(position, current_price, trail) ==
    IF trail /\ position.stop_loss # None
    THEN IF position.quantity > 0
         THEN update_stop_loss(position, current_price * (PctDen - PctNum))
         ELSE update_stop_loss(position, current_price * (PctDen + PctNum))
    ELSE position

\* the local new_stop of the trailing-stop branch, scaled by PctDen
NewStop(position, current_price) ==
    IF position.quantity > 0
    THEN current_price * (PctDen - PctNum)
    ELSE current_price * (PctDen + PctNum)

\* the tests of the trailing-stop branch: trailing is enabled, the position
\* has a stop, and new_stop is tighter than it
TrailTest(position, current_price, trail) ==
    /\ trail
    /\ position.stop_loss # None
    /\ IF position.quantity > 0
       THEN NewStop(position, current_price) > position.stop_loss
       ELSE NewStop(position, current_price) < position.stop_loss

\* the trailing-stop branch of update_position; new_stop is scaled by PctDen
TrailStop(position, current_price, trail) ==
    IF trail /\ position.stop_loss # None
    THEN IF position.quantity > 0
         THEN LET new_stop == current_price * (PctDen - PctNum)
              IN  IF new_stop > position.stop_loss
                  THEN update_stop_loss(position, new_stop)
                  ELSE position
         ELSE LET new_stop == current_price * (PctDen + PctNum)
              IN  IF new_stop < position.stop_loss
                  THEN update_stop_loss(position, new_stop)
                  ELSE position
    ELSE position

\* update_position closing a stopped-out position at its stop level
update_position_at_stop(self, ticker, current_price, current_time, trail) ==
    IF ~HasKey(self.positions, ticker)
    THEN self
    ELSE LET position == Get(self.positions, ticker)
         IN  IF StopLossHit(position, current_price)
             THEN close_position(self, ticker, position.stop_loss \div PctDen,
                                 current_time)
             ELSE IF TakeProfitHit(position, current_price)
             THEN close_position(self, ticker, current_price, current_time)
             ELSE [self EXCEPT
                     !.positions = DictSet(self.positions, ticker,
                                      TrailStop(position, current_price, trail))]

\* update_position writing the unrealized pnl it computes into the position
update_position_stores_unrealized(self, ticker, current_price, current_time, trail) ==
    IF ~HasKey(self.positions, ticker)
    THEN self
    ELSE LET position == Get(self.positions, ticker)
         IN  IF StopLossHit(position, current_price)
             THEN close_position(self, ticker, current_price, current_time)
             ELSE IF TakeProfitHit(position, current_price)
             THEN close_position(self, ticker, current_price, current_time)
             ELSE [self EXCEPT
                     !.positions = DictSet(self.positions, ticker,
                        [TrailStop(position, current_price, trail) EXCEPT
                           !.pnl = (current_price - position.entry_price)
                                      * position.quantity])]

\* update_position moving the trailing stop before the exit checks
update_position_trails_first(self, ticker, current_price, current_time, trail) ==
    IF ~HasKey(self.positions, ticker)
    THEN self
    ELSE LET trailed  == [self EXCEPT
                            !.positions = DictSet(self.positions, ticker,
                                TrailStop(Get(self.positions, ticker),
                                          current_price, trail))]
             position == Get(trailed.positions, ticker)
         IN  IF StopLossHit(position, current_price)
             THEN close_position(trailed, ticker, current_price, current_time)
             ELSE IF TakeProfitHit(position, current_price)
             THEN close_position(trailed, ticker, current_price, current_time)
             ELSE trailed

\* Portfolio.update_position
update_position(self, ticker, current_price, current_time, trail) ==
    IF ~HasKey(self.positions, ticker)
    THEN self
    ELSE LET position == Get(self.positions, ticker)
         IN  IF StopLossHit(position, current_price)
             THEN close_position(self, ticker, current_price, current_time)
             ELSE IF TakeProfitHit(position, current_price)
             THEN close_position(self, ticker, current_price, current_time)
             ELSE [self EXCEPT
                     !.positions = DictSet(self.positions, ticker,
                                      TrailStop(position, current_price, trail))]

\* the first loop of update_portfolio, over list(self.positions.keys())
RECURSIVE UpdateAll(_, _, _, _, _)
UpdateAll(self, keys, current_prices, current_time, trail) ==
    IF keys = << >>
    THEN self
    ELSE LET ticker == Head(keys)
             next   == IF ticker \in DOMAIN current_prices
                       THEN update_position(self, ticker, current_prices[ticker],
                                            current_time, trail)
                       ELSE self
         IN  UpdateAll(next, Tail(keys), current_prices, current_time, trail)

\* the valuation loop shared by update_portfolio and the accessors:
\* sum of quantity * current_prices[ticker] over the first n open positions
RECURSIVE PositionValue(_, _, _)
PositionValue(d, n, current_prices) ==
    IF n = 0
    THEN 0
    ELSE PositionValue(d, n - 1, current_prices)
           + (IF d[n].ticker \in DOMAIN current_prices
              THEN d[n].quantity * current_prices[d[n].ticker]
              ELSE 0)

\* update_portfolio keeping only the latest equity-curve sample
update_portfolio_latest_only(self, current_prices, current_time, trail) ==
    LET after == UpdateAll(self, Keys(self.positions), current_prices,
                           current_time, trail)
        portfolio_value == after.cash + PositionValue(after.positions,
                                            Len(after.positions), current_prices)
    IN  [after EXCEPT
            !.equity_curve = << [ timestamp       |-> current_time,
                                  portfolio_value |-> portfolio_value,
                                  cash            |-> after.cash ] >>]

\* update_portfolio valuing the portfolio before the exit checks
update_portfolio_stale_value(self, current_prices, current_time, trail) ==
    LET after == UpdateAll(self, Keys(self.positions), current_prices,
                           current_time, trail)
        portfolio_value == self.cash + PositionValue(self.positions,
                                           Len(self.positions), current_prices)
    IN  [after EXCEPT
            !.equity_curve = Append(after.equity_curve,
                                [ timestamp       |-> current_time,
                                  portfolio_value |-> portfolio_value,
                                  cash            |-> self.cash ])]

\* the open positions of d whose ticker current_prices does not price, valued
\* at their entry price
RECURSIVE UnpricedAtEntry(_, _, _)
UnpricedAtEntry(d, n, current_prices) ==
    IF n = 0
    THEN 0
    ELSE UnpricedAtEntry(d, n - 1, current_prices)
           + (IF d[n].ticker \in DOMAIN current_prices
              THEN 0
              ELSE d[n].quantity * d[n].entry_price)

\* update_portfolio counting an unpriced position at its entry price
update_portfolio_values_unpriced(self, current_prices, current_time, trail) ==
    LET after == UpdateAll(self, Keys(self.positions), current_prices,
                           current_time, trail)
        portfolio_value == after.cash + PositionValue(after.positions,
                                            Len(after.positions), current_prices)
                             + UnpricedAtEntry(after.positions,
                                            Len(after.positions), current_prices)
    IN  [after EXCEPT
            !.equity_curve = Append(after.equity_curve,
                                [ timestamp       |-> current_time,
                                  portfolio_value |-> portfolio_value,
                                  cash            |-> after.cash ])]

\* Portfolio.update_portfolio
update_portfolio(self, current_prices, current_time, trail) ==
    LET after == UpdateAll(self, Keys(self.positions), current_prices,
                           current_time, trail)
        portfolio_value == after.cash + PositionValue(after.positions,
                                            Len(after.positions), current_prices)
    IN  [after EXCEPT
            !.equity_curve = Append(after.equity_curve,
                                [ timestamp       |-> current_time,
                                  portfolio_value |-> portfolio_value,
                                  cash            |-> after.cash ])]

\* get_portfolio_value pricing every open position, the unpriced ones at
\* their entry price
get_portfolio_value_prices_all(self, current_prices) ==
    self.cash + PositionValue(self.positions, Len(self.positions), current_prices)
              + UnpricedAtEntry(self.positions, Len(self.positions), current_prices)

\* Portfolio.get_portfolio_value
get_portfolio_value(self, current_prices) ==
    self.cash + PositionValue(self.positions, Len(self.positions), current_prices)

\* Portfolio.get_position_value
get_position_value(self, current_prices) ==
    PositionValue(self.positions, Len(self.positions), current_prices)

\* exposure taken against cash alone
get_position_exposure_over_cash(self) ==
    [t \in {self.positions[i].ticker : i \in 1..Len(self.positions)} |->
        << Get(self.positions, t).quantity * Get(self.positions, t).entry_price,
           self.cash >>]

\* Portfolio.get_position_exposure: ticker -> exposure, each exposure the
\* fraction <<numerator, denominator>>
get_position_exposure(self) ==
    LET entry_prices == [t \in {self.positions[i].ticker : i \in 1..Len(self.positions)}
                           |-> Get(self.positions, t).entry_price]
        portfolio_value == get_portfolio_value(self, entry_prices)
    IN  [t \in DOMAIN entry_prices |->
            << Get(self.positions, t).quantity * Get(self.positions, t).entry_price,
               portfolio_value >>]

\* get_portfolio_value summing into self.cash instead of a local
call_get_portfolio_value_into_cash(self, current_prices) ==
    [ self   |-> [self EXCEPT !.cash = get_portfolio_value(self, current_prices)],
      result |-> get_portfolio_value(self, current_prices) ]

\* A call of an accessor: the Portfolio it leaves behind and what it returns.
call_get_portfolio_value(self, current_prices) ==
    [ self   |-> self,
      result |-> get_portfolio_value(self, current_prices) ]

call_get_position_value(self, current_prices) ==
    [ self   |-> self,
      result |-> get_position_value(self, current_prices) ]

call_get_position_exposure(self) ==
    [ self   |-> self,
      result |-> get_position_exposure(self) ]

\* ---------------------------------------------------------------- state
\* the price snapshots handed to update_portfolio
Snapshots == UNION { [S -> SnapPrices] : S \in SUBSET Tickers }

\* the price maps handed to get_portfolio_value and get_position_value
AccessorSnapshots ==
    { [t \in Tickers |-> IF t = "AAPL" THEN 160 ELSE 140],
      [t \in {"AAPL"} |-> 140] }

\* The inputs of a call.  A call for a ticker that is not open returns (or
\* skips the ticker) before it reads the price, so one price stands for all
\* prices there.
ExitPrices(ticker) ==
    IF HasKey(positions, ticker) THEN SnapPrices ELSE {160}

UpdatePrices(ticker) ==
    IF HasKey(positions, ticker) THEN Prices ELSE {150}

CurrentSnapshots ==
    { cp \in Snapshots : \A t \in DOMAIN cp : HasKey(positions, t) \/ cp[t] = 160 }

\* the targets a caller moves a position's take_profit to
TargetPrices == {150, 160}

\* ops is the sequence of calls made on the Portfolio so far; prev_price[t]
\* is the price of the latest update of the position now open for t (None
\* before its first update).
\* the clock the callers read current_time from: one tick per call
Now == Len(ops) + 1

\* The callers' threads.  Under Spec one caller makes one call at a time and
\* every call runs to its end, so no thread is ever inside a call; SpecConc
\* below lets two threads run their calls statement by statement.
\* --------------------------------------------------------------------
\* RiskManager, OrderManager and TradingExecutor.  start_platform builds
\* them (main.py) from src.execution.trading_execution; the classes are
\* written here from their contracts.

\* the order enums, by member name as the callers write them
OrderType == {"MARKET", "LIMIT", "STOP", "STOP_LIMIT", "TRAILING_STOP"}
OrderSide == {"BUY", "SELL"}
OrderStatus ==
    {"PENDING", "OPEN", "FILLED", "PARTIALLY_FILLED", "CANCELED", "REJECTED",
     "EXPIRED"}
TerminalStatus == {"FILLED", "REJECTED", "CANCELED", "EXPIRED"}

\* --risk default: the maximum risk per trade, in percent of equity
max_risk_percent == 2
\* confidence at or below the floor sizes to zero (confidence is in percent)
confidence_floor == 50
\* broker submits per execute_order
max_retries == 3
\* start_platform trades only at this confidence or above
min_trade_confidence == 60

RECURSIVE GCD(_, _)
GCD(a, b) == IF b = 0 THEN a ELSE GCD(b, a % b)

\* A confidence is a percentage that need not be a whole number: it is held
\* as the exact fraction num / den in lowest terms, den > 0, and compared by
\* cross-multiplying.
Percent(num, den) ==
    LET g == GCD(IF num < 0 THEN -num ELSE num, den)
    IN  [ num |-> num \div g, den |-> den \div g ]

Below(confidence, n) == confidence.num < n * confidence.den

AtMost(confidence, n) == confidence.num <= n * confidence.den

Above(confidence, n) == confidence.num > n * confidence.den

RiskManager(risk) ==
    [ max_risk_percent |-> risk, equity |-> initial_capital ]

\* the budget is max_risk_percent of equity scaled by confidence; the size is
\* the whole number of shares the budget buys
calculate_position_size_rounds_up(self, symbol, signal, confidence, current_price) ==
    IF \/ current_price <= 0
       \/ Below(confidence, 0)
       \/ Above(confidence, 100)
       \/ AtMost(confidence, confidence_floor)
    THEN 0
    ELSE (self.equity * self.max_risk_percent * confidence.num
            + 100 * 100 * current_price * confidence.den - 1)
            \div (100 * 100 * current_price * confidence.den)

calculate_position_size_no_floor(self, symbol, signal, confidence, current_price) ==
    IF \/ current_price <= 0
       \/ Below(confidence, 0)
       \/ Above(confidence, 100)
    THEN 0
    ELSE (self.equity * self.max_risk_percent * confidence.num)
            \div (100 * 100 * current_price * confidence.den)

calculate_position_size(self, symbol, signal, confidence, current_price) ==
    IF \/ current_price <= 0
       \/ Below(confidence, 0)
       \/ Above(confidence, 100)
       \/ AtMost(confidence, confidence_floor)
    THEN 0
    ELSE (self.equity * self.max_risk_percent * confidence.num)
            \div (100 * 100 * current_price * confidence.den)

OrderManager ==
    [ orders |-> << >>, next_order_id |-> 1 ]

\* an order spec as the callers write it: a dict whose absent keys read None
OrderSpec(symbol, quantity, side, type, price, stop_price) ==
    [ symbol |-> symbol, quantity |-> quantity, side |-> side, type |-> type,
      price |-> price, stop_price |-> stop_price, order_id |-> None,
      status |-> "none" ]

ValidSpec(spec) ==
    /\ spec.symbol # ""
    /\ spec.quantity > 0
    /\ spec.side \in OrderSide
    /\ spec.type \in OrderType
    /\ spec.type \in {"LIMIT", "STOP_LIMIT"} => spec.price # None
    /\ spec.type \in {"STOP", "STOP_LIMIT"} => spec.stop_price # None

create_order_reuses_id(self, spec) ==
    IF ~ValidSpec(spec)
    THEN [ self |-> self, order |-> None, error |-> "ValidationError" ]
    ELSE LET order == [spec EXCEPT !.order_id = self.next_order_id,
                                   !.status = "PENDING"]
         IN  [ self  |-> [self EXCEPT !.orders = Append(@, order)],
               order |-> order.order_id,
               error |-> "none" ]

\* validate, then give the order the next id and status Pending and track it;
\* a malformed spec raises before anything is written
create_order(self, spec) ==
    IF ~ValidSpec(spec)
    THEN [ self |-> self, order |-> None, error |-> "ValidationError" ]
    ELSE LET order == [spec EXCEPT !.order_id = self.next_order_id,
                                   !.status = "PENDING"]
         IN  [ self  |-> [ orders        |-> Append(self.orders, order),
                           next_order_id |-> self.next_order_id + 1 ],
               order |-> order.order_id,
               error |-> "none" ]

\* the tracked order with this id
OrderById(self, order_id) ==
    self.orders[CHOOSE i \in 1..Len(self.orders) :
                    self.orders[i].order_id = order_id]

\* the order manager after the tracked order order_id took this status
\* (an Order is one object, shared by the manager and the executor)
WithStatus(self, order_id, status) ==
    [self EXCEPT !.orders =
        [i \in 1..Len(@) |-> IF @[i].order_id = order_id
                             THEN [@[i] EXCEPT !.status = status]
                             ELSE @[i]]]

TradingExecutor(mode, broker) ==
    [ mode |-> mode, max_retries |-> max_retries, broker |-> broker ]

\* what the broker answers to the attempt-th submit of one execute_order
\* (ack, fill or reject, or it raises a transient or a fatal error): the
\* broker follows its script and repeats the script's last answer
BrokerResponse(broker, attempt) ==
    IF attempt <= Len(broker) THEN broker[attempt] ELSE broker[Len(broker)]

\* the answers of the simulated broker of paper mode: the fill is immediate
\* (fill), or probabilistic, and an order that is not filled at once is left
\* Open (ack) or is refused (reject)
PaperScripts == { <<"fill">>, <<"ack">>, <<"reject">> }

\* paper mode: the simulated answer against the last known price, with no
\* submit to an external broker and no error to retry
paper_fill(self, order, last_price) ==
    LET response == BrokerResponse(self.broker, 1)
        status   == CASE response = "fill" -> "FILLED"
                      [] response = "ack"  -> "OPEN"
                      [] OTHER             -> "REJECTED"
    IN  [ status |-> status, order_id |-> order.order_id,
          fill_price |-> IF status = "FILLED" THEN last_price ELSE None,
          filled_quantity |-> IF status = "FILLED" THEN order.quantity ELSE 0,
          attempts |-> 0, fill |-> status = "FILLED", error |-> "none" ]

\* one submit more than max_retries
RECURSIVE Submit_extra_attempt(_, _)
Submit_extra_attempt(self, attempt) ==
    LET response == BrokerResponse(self.broker, attempt)
    IN  IF response = "transient"
        THEN IF attempt <= self.max_retries
             THEN Submit_extra_attempt(self, attempt + 1)
             ELSE [ attempts |-> attempt, status |-> "REJECTED",
                    error |-> "BrokerError" ]
        ELSE [ attempts |-> attempt,
               status   |-> CASE response = "ack"     -> "OPEN"
                              [] response = "fill"    -> "FILLED"
                              [] OTHER                -> "REJECTED",
               error    |-> IF response = "fatal" THEN "BrokerFatalError"
                            ELSE "none" ]

\* a fatal error retried like a transient one
RECURSIVE Submit_retries_fatal(_, _)
Submit_retries_fatal(self, attempt) ==
    LET response == BrokerResponse(self.broker, attempt)
    IN  IF response \in {"transient", "fatal"}
        THEN IF attempt < self.max_retries
             THEN Submit_retries_fatal(self, attempt + 1)
             ELSE [ attempts |-> attempt, status |-> "REJECTED",
                    error |-> IF response = "fatal" THEN "BrokerFatalError"
                              ELSE "BrokerError" ]
        ELSE [ attempts |-> attempt,
               status   |-> CASE response = "ack"     -> "OPEN"
                              [] response = "fill"    -> "FILLED"
                              [] OTHER                -> "REJECTED",
               error    |-> "none" ]

\* submit with retries: a transient failure is retried while attempts remain
RECURSIVE Submit(_, _)
Submit(self, attempt) ==
    LET response == BrokerResponse(self.broker, attempt)
    IN  IF response = "transient"
        THEN IF attempt < self.max_retries
             THEN Submit(self, attempt + 1)
             ELSE [ attempts |-> attempt, status |-> "REJECTED",
                    error |-> "BrokerError" ]
        ELSE [ attempts |-> attempt,
               status   |-> CASE response = "ack"     -> "OPEN"
                              [] response = "fill"    -> "FILLED"
                              [] OTHER                -> "REJECTED",
               error    |-> IF response = "fatal" THEN "BrokerFatalError"
                            ELSE "none" ]

\* a terminal order submitted again
execute_order_resubmits_terminal(self, order, last_price) ==
    IF self.mode = "paper"
    THEN paper_fill(self, order, last_price)
    ELSE LET sub == Submit(self, 1)
         IN  [ status |-> sub.status, order_id |-> order.order_id,
               fill_price |-> IF sub.status \in {"FILLED", "PARTIALLY_FILLED"}
                              THEN last_price ELSE None,
               filled_quantity |-> IF sub.status = "FILLED"
                                   THEN order.quantity ELSE 0,
               attempts |-> sub.attempts,
               fill |-> sub.status \in {"FILLED", "PARTIALLY_FILLED"},
               error |-> sub.error ]

\* retry exhaustion and fatal errors left unreported, the order Pending
execute_order_swallows_failure(self, order, last_price) ==
    IF order.status \in TerminalStatus
    THEN [ status |-> order.status, order_id |-> order.order_id,
           fill_price |-> None, filled_quantity |-> 0,
           attempts |-> 0, fill |-> FALSE, error |-> "none" ]
    ELSE IF self.mode = "paper"
    THEN paper_fill(self, order, last_price)
    ELSE LET sub == Submit(self, 1)
         IN  IF sub.error # "none"
             THEN [ status |-> "PENDING", order_id |-> order.order_id,
                    fill_price |-> None, filled_quantity |-> 0,
                    attempts |-> sub.attempts, fill |-> FALSE,
                    error |-> "none" ]
             ELSE [ status |-> sub.status, order_id |-> order.order_id,
                    fill_price |-> IF sub.status = "FILLED"
                                   THEN last_price ELSE None,
                    filled_quantity |-> IF sub.status = "FILLED"
                                        THEN order.quantity ELSE 0,
                    attempts |-> sub.attempts,
                    fill |-> sub.status = "FILLED",
                    error |-> sub.error ]

\* ExecutionResult{status, fill_price?, filled_quantity?, order_id}, with the
\* number of broker submits, whether a FillEvent was emitted and the failure
\* reported.  An order in a terminal status is not executed again; any other
\* order is submitted: paper mode simulates the fill, live mode goes to the
\* broker.
execute_order(self, order, last_price) ==
    IF order.status \in TerminalStatus
    THEN [ status |-> order.status, order_id |-> order.order_id,
           fill_price |-> None, filled_quantity |-> 0,
           attempts |-> 0, fill |-> FALSE, error |-> "none" ]
    ELSE IF self.mode = "paper"
    THEN paper_fill(self, order, last_price)
    ELSE LET sub == Submit(self, 1)
         IN  [ status |-> sub.status, order_id |-> order.order_id,
               fill_price |-> IF sub.status \in {"FILLED", "PARTIALLY_FILLED"}
                              THEN last_price ELSE None,
               filled_quantity |-> IF sub.status = "FILLED"
                                   THEN order.quantity ELSE 0,
               attempts |-> sub.attempts,
               fill |-> sub.status \in {"FILLED", "PARTIALLY_FILLED"},
               error |-> sub.error ]

\* a refusal taken by a PartiallyFilled order
StatusAfter_partial_rejects(status, event) ==
    CASE status = "OPEN" /\ event = "fill"               -> "FILLED"
      [] status = "OPEN" /\ event = "partial"            -> "PARTIALLY_FILLED"
      [] status = "OPEN" /\ event = "reject"             -> "REJECTED"
      [] status = "OPEN" /\ event = "cancel"             -> "CANCELED"
      [] status = "OPEN" /\ event = "expire"             -> "EXPIRED"
      [] status = "PARTIALLY_FILLED" /\ event = "fill"   -> "FILLED"
      [] status = "PARTIALLY_FILLED" /\ event = "cancel" -> "CANCELED"
      [] status = "PARTIALLY_FILLED" /\ event = "reject" -> "REJECTED"
      [] OTHER                                           -> status

\* the status an order takes on a later broker event: only an Open or a
\* PartiallyFilled order moves
StatusAfter(status, event) ==
    CASE status = "OPEN" /\ event = "fill"               -> "FILLED"
      [] status = "OPEN" /\ event = "partial"            -> "PARTIALLY_FILLED"
      [] status = "OPEN" /\ event = "reject"             -> "REJECTED"
      [] status = "OPEN" /\ event = "cancel"             -> "CANCELED"
      [] status = "OPEN" /\ event = "expire"             -> "EXPIRED"
      [] status = "PARTIALLY_FILLED" /\ event = "fill"   -> "FILLED"
      [] status = "PARTIALLY_FILLED" /\ event = "cancel" -> "CANCELED"
      [] OTHER                                           -> status

\* the broker scripts a live executor is run against
BrokerScripts ==
    { <<"fill">>, <<"ack">>, <<"reject">>, <<"fatal">>,
      <<"transient", "fill">>, <<"transient">> }

\* the retry bounds a live executor is configured with
RetryLimits == {1, max_retries}

\* abs((prediction - current_price) / current_price) * 100, not rounded
Confidence(prediction, current_price) ==
    LET d == prediction - current_price
    IN  Percent((IF d < 0 THEN -d ELSE d) * 100, current_price)

\* the symbol the pipeline trades
Symbols == {"AAPL"}
\* <<current_price, prediction>>: confidence 2, 59 1/3, 60 (sell), 82 2/3
\* and 250
Quotes == { <<150, 153>>, <<150, 239>>, <<150, 60>>, <<150, 274>>,
            <<150, 525>> }
\* <<confidence, current_price>> of direct calculate_position_size calls
SizingInputs ==
    { <<-10, 150>>, <<50, 150>>, <<75, 0>>, <<100, 150>>, <<120, 150>> }
\* specs of direct create_order calls
DirectSpecs ==
    { OrderSpec("AAPL", 10, "BUY", "MARKET", None, None),
      OrderSpec("AAPL", 0, "BUY", "MARKET", None, None),
      OrderSpec("AAPL", 10, "HOLD", "MARKET", None, None),
      OrderSpec("AAPL", 10, "SELL", "LIMIT", None, None) }
BrokerEvents == {"fill", "partial", "reject", "cancel", "expire"}
\* the last known price a paper fill is made at
LastPrice(symbol) == 150

Threads == {1, 2}

IdleThread ==
    [ pc |-> "idle", op |-> "none", ticker |-> "none", price |-> None,
      time |-> None, position |-> None, line |-> << >> ]

IdleThreads == [th \in Threads |-> IdleThread]

Install(self) ==
    /\ cash' = self.cash
    /\ positions' = self.positions
    /\ closed_positions' = self.closed_positions
    /\ equity_curve' = self.equity_curve
    /\ transactions' = self.transactions
    /\ trade_log' = self.trade_log

Init ==
    /\ cash = NewPortfolio.cash
    /\ positions = NewPortfolio.positions
    /\ closed_positions = NewPortfolio.closed_positions
    /\ equity_curve = NewPortfolio.equity_curve
    /\ transactions = NewPortfolio.transactions
    /\ trade_log = NewPortfolio.trade_log
    /\ trailing \in BOOLEAN
    /\ ops = << >>
    /\ prev_price = [t \in Tickers |-> None]
    /\ threads = IdleThreads
    /\ risk_manager = RiskManager(max_risk_percent)
    /\ order_manager = OrderManager
    /\ trading_executor = TradingExecutor("paper", <<"fill">>)
    /\ data_collector = DataCollector(DATA_SOURCES, ERROR_HANDLING, TRUE)

\* a caller builds a Position and hands it to add_position
AddPosition ==
    /\ Len(ops) < MaxOps
    /\ \E ticker \in Tickers, tpl \in Templates :
          LET position == Position(ticker, tpl[1], tpl[2], Now, tpl[3], tpl[4])
          IN  /\ Install(add_position(Self, position))
              /\ ops' = Append(ops, [op |-> "add_position", ticker |-> ticker,
                                     position |-> position,
                                     held |-> HasKey(positions, ticker)])
              /\ prev_price' = [prev_price EXCEPT ![ticker] = None]
    /\ UNCHANGED <<trailing, threads, exec_vars, data_collector>>

ClosePosition ==
    /\ Len(ops) < MaxOps
    /\ \E ticker \in Tickers : \E exit_price \in ExitPrices(ticker) :
          /\ Install(close_position(Self, ticker, exit_price, Now))
          /\ ops' = Append(ops, [op |-> "close_position", ticker |-> ticker,
                                 price |-> exit_price,
                                 held |-> HasKey(positions, ticker)])
    /\ UNCHANGED <<trailing, prev_price, threads, exec_vars, data_collector>>

UpdatePosition ==
    /\ Len(ops) < MaxOps
    /\ \E ticker \in Tickers : \E current_price \in UpdatePrices(ticker) :
          /\ Install(update_position(Self, ticker, current_price, Now, trailing))
          /\ ops' = Append(ops, [op |-> "update_position", ticker |-> ticker,
                                 price |-> current_price,
                                 held |-> HasKey(positions, ticker)])
          /\ prev_price' = IF HasKey(positions, ticker)
                           THEN [prev_price EXCEPT ![ticker] = current_price]
                           ELSE prev_price
    /\ UNCHANGED <<trailing, threads, exec_vars, data_collector>>

\* a caller moves the target of an open position:
\* portfolio.positions[ticker].update_take_profit(price)
UpdateTakeProfit ==
    /\ Len(ops) < MaxOps
    /\ \E ticker \in Tickers : \E price \in TargetPrices :
          /\ HasKey(positions, ticker)
          /\ positions' = DictSet(positions, ticker,
                              update_take_profit(Get(positions, ticker), price))
          /\ ops' = Append(ops, [op |-> "update_take_profit", ticker |-> ticker,
                                 price |-> price, held |-> TRUE])
    /\ UNCHANGED <<cash, closed_positions, equity_curve, transactions,
                   trade_log, trailing, prev_price, threads, exec_vars,
                   data_collector>>

UpdatePortfolio ==
    /\ Len(ops) < MaxOps
    /\ \E current_prices \in CurrentSnapshots :
          /\ Install(update_portfolio(Self, current_prices, Now, trailing))
          /\ ops' = Append(ops, [op |-> "update_portfolio",
                                 prices |-> current_prices])
          /\ prev_price' = [t \in Tickers |->
                              IF HasKey(positions, t) /\ t \in DOMAIN current_prices
                              THEN current_prices[t]
                              ELSE prev_price[t]]
    /\ UNCHANGED <<trailing, threads, exec_vars, data_collector>>

GetPortfolioValue ==
    /\ Len(ops) < MaxOps
    /\ \E current_prices \in AccessorSnapshots :
          LET r == call_get_portfolio_value(Self, current_prices)
          IN  /\ Install(r.self)
              /\ ops' = Append(ops, [op |-> "get_portfolio_value",
                                     prices |-> current_prices,
                                     result |-> r.result])
    /\ UNCHANGED <<trailing, prev_price, threads, exec_vars, data_collector>>

GetPositionValue ==
    /\ Len(ops) < MaxOps
    /\ \E current_prices \in AccessorSnapshots :
          LET r == call_get_position_value(Self, current_prices)
          IN  /\ Install(r.self)
              /\ ops' = Append(ops, [op |-> "get_position_value",
                                     prices |-> current_prices,
                                     result |-> r.result])
    /\ UNCHANGED <<trailing, prev_price, threads, exec_vars, data_collector>>

GetPositionExposure ==
    /\ Len(ops) < MaxOps
    /\ LET r == call_get_position_exposure(Self)
       IN  /\ Install(r.self)
           /\ ops' = Append(ops, [op |-> "get_position_exposure",
                                  result |-> r.result])
    /\ UNCHANGED <<trailing, prev_price, threads, exec_vars, data_collector>>

Next ==
    \/ AddPosition
    \/ ClosePosition
    \/ UpdatePosition
    \/ UpdateTakeProfit
    \/ UpdatePortfolio
    \/ GetPortfolioValue
    \/ GetPositionValue
    \/ GetPositionExposure

Spec == Init /\ [][Next]_vars

\* --------------------------------------------------------------------
\* The Portfolio under positions add_position accepts without a check: a
\* stop-loss and a take-profit that both hold at one price, and a long
\* position that costs more than half the capital.
\* <<quantity, entry_price, stop_loss, take_profit>>
EdgeTemplates ==
    { <<10, 150, 150, 145>>,
      <<-5, 150, 145, 150>>,
      <<10, 150, 130, 160>>,
      <<400, 150, 145, None>> }

AddEdgePosition ==
    /\ Len(ops) < MaxOps
    /\ \E ticker \in Tickers, tpl \in EdgeTemplates :
          LET position == Position(ticker, tpl[1], tpl[2], Now, tpl[3], tpl[4])
          IN  /\ Install(add_position(Self, position))
              /\ ops' = Append(ops, [op |-> "add_position", ticker |-> ticker,
                                     position |-> position,
                                     held |-> HasKey(positions, ticker)])
              /\ prev_price' = [prev_price EXCEPT ![ticker] = None]
    /\ UNCHANGED <<trailing, threads, exec_vars, data_collector>>

NextEdge ==
    \/ AddEdgePosition
    \/ ClosePosition
    \/ UpdatePosition
    \/ UpdateTakeProfit

SpecEdge == Init /\ [][NextEdge]_vars

\* --------------------------------------------------------------------
\* Two threads calling close_position / update_position on one Portfolio.
\* The methods take no lock, so a thread can be preempted between any two
\* statements; each action below is one statement (or one run of statements
\* that touches no shared state) of the method the thread is in.
\* A Position is an object shared by reference: the thread's local
\* "position" is the object's identity (its entry_time), and a write to the
\* object shows wherever the object is stored.

\* the object with identity id, wherever it is stored now
Obj(id) ==
    IF \E i \in 1..Len(positions) : positions[i].entry_time = id
    THEN positions[CHOOSE i \in 1..Len(positions) : positions[i].entry_time = id]
    ELSE closed_positions[CHOOSE i \in 1..Len(closed_positions) :
                              closed_positions[i].entry_time = id]

\* the list seq after object id was replaced by the value new
WithObj(seq, id, new) ==
    [i \in 1..Len(seq) |-> IF seq[i].entry_time = id THEN new ELSE seq[i]]

\* write the value new to object id
WriteObj(id, new) ==
    /\ positions' = WithObj(positions, id, new)
    /\ closed_positions' = WithObj(closed_positions, id, new)

Goto(th, label) ==
    threads' = [threads EXCEPT ![th].pc = label]

\* the Portfolio the threads share: one position, opened at time 1
InitConc ==
    /\ \E ticker \in Tickers, tpl \in Templates :
          LET self == add_position(NewPortfolio,
                         Position(ticker, tpl[1], tpl[2], 1, tpl[3], tpl[4]))
          IN  /\ cash = self.cash
              /\ positions = self.positions
              /\ closed_positions = self.closed_positions
              /\ equity_curve = self.equity_curve
              /\ transactions = self.transactions
              /\ trade_log = self.trade_log
    /\ trailing \in BOOLEAN
    /\ ops = << >>
    /\ prev_price = [t \in Tickers |-> None]
    /\ threads = IdleThreads
    /\ risk_manager = RiskManager(max_risk_percent)
    /\ order_manager = OrderManager
    /\ trading_executor = TradingExecutor("paper", <<"fill">>)
    /\ data_collector = DataCollector(DATA_SOURCES, ERROR_HANDLING, TRUE)

\* a thread enters close_position or update_position
ThreadCall(th) ==
    /\ threads[th].pc = "idle"
    /\ \E op \in {"close_position", "update_position"}, ticker \in Tickers,
          price \in Prices :
          /\ threads' = [threads EXCEPT ![th] =
                            [ pc |-> "check", op |-> op, ticker |-> ticker,
                              price |-> price, time |-> 1 + th,
                              position |-> None, line |-> << >> ]]
          /\ ops' = Append(ops, [op |-> op, ticker |-> ticker, price |-> price,
                                 held |-> HasKey(positions, ticker),
                                 thread |-> th])
    /\ UNCHANGED <<cash, positions, closed_positions, equity_curve,
                   transactions, trade_log, trailing, prev_price, exec_vars, data_collector>>

\* if ticker not in self.positions: return     (both methods)
ThreadCheck(th) ==
    /\ threads[th].pc = "check"
    /\ IF HasKey(positions, threads[th].ticker)
       THEN Goto(th, "load")
       ELSE Goto(th, "done")
    /\ UNCHANGED <<cash, positions, closed_positions, equity_curve,
                   transactions, trade_log, trailing, ops, prev_price, exec_vars, data_collector>>

\* position = self.positions[ticker]: KeyError when the ticker is gone
ThreadLoad(th) ==
    /\ threads[th].pc = "load"
    /\ IF HasKey(positions, threads[th].ticker)
       THEN threads' = [threads EXCEPT
                          ![th].position = Get(positions, threads[th].ticker).entry_time,
                          ![th].pc = IF threads[th].op = "close_position"
                                     THEN "close" ELSE "exits"]
       ELSE Goto(th, "error")
    /\ UNCHANGED <<cash, positions, closed_positions, equity_curve,
                   transactions, trade_log, trailing, ops, prev_price, exec_vars, data_collector>>

\* update_position: the stop-loss and take-profit checks; a hit calls
\* self.close_position(ticker, current_price, current_time)
ThreadExits(th) ==
    /\ threads[th].pc = "exits"
    /\ LET position == Obj(threads[th].position)
       IN  IF \/ StopLossHit(position, threads[th].price)
              \/ TakeProfitHit(position, threads[th].price)
           THEN threads' = [threads EXCEPT ![th].op = "close_position",
                                           ![th].pc = "check"]
           ELSE Goto(th, "trail")
    /\ UNCHANGED <<cash, positions, closed_positions, equity_curve,
                   transactions, trade_log, trailing, ops, prev_price, exec_vars, data_collector>>

\* update_position: the trailing-stop tests, `if new_stop > position.stop_loss`
\* (`<` for a short position); new_stop is a local computed from current_price
ThreadTrail(th) ==
    /\ threads[th].pc = "trail"
    /\ IF TrailTest(Obj(threads[th].position), threads[th].price, trailing)
       THEN Goto(th, "store_stop")
       ELSE Goto(th, "done")
    /\ UNCHANGED <<cash, positions, closed_positions, equity_curve,
                   transactions, trade_log, trailing, ops, prev_price, exec_vars,
                   data_collector>>

\* update_position: position.update_stop_loss(new_stop), a call of its own
\* after the test, so the stop it overwrites may no longer be the one tested
ThreadStoreStop(th) ==
    /\ threads[th].pc = "store_stop"
    /\ WriteObj(threads[th].position,
                update_stop_loss(Obj(threads[th].position),
                                 NewStop(Obj(threads[th].position),
                                         threads[th].price)))
    /\ Goto(th, "done")
    /\ UNCHANGED <<cash, equity_curve, transactions, trade_log, trailing, ops,
                   prev_price, exec_vars, data_collector>>

\* close_position: position.close(exit_price, exit_time)
ThreadClose(th) ==
    /\ threads[th].pc = "close"
    /\ WriteObj(threads[th].position,
                close(Obj(threads[th].position), threads[th].price,
                      threads[th].time))
    /\ Goto(th, "cash")
    /\ UNCHANGED <<cash, equity_curve, transactions, trade_log, trailing, ops,
                   prev_price, exec_vars, data_collector>>

\* close_position: self.cash += position.quantity * exit_price
ThreadCash(th) ==
    /\ threads[th].pc = "cash"
    /\ cash' = cash + Obj(threads[th].position).quantity * threads[th].price
    /\ Goto(th, "append_closed")
    /\ UNCHANGED <<positions, closed_positions, equity_curve, transactions,
                   trade_log, trailing, ops, prev_price, exec_vars, data_collector>>

\* close_position: self.closed_positions.append(position)
ThreadAppendClosed(th) ==
    /\ threads[th].pc = "append_closed"
    /\ closed_positions' = Append(closed_positions, Obj(threads[th].position))
    /\ Goto(th, "append_tx")
    /\ UNCHANGED <<cash, positions, equity_curve, transactions, trade_log,
                   trailing, ops, prev_price, exec_vars, data_collector>>

\* close_position: self.transactions.append({...})
ThreadAppendTx(th) ==
    /\ threads[th].pc = "append_tx"
    /\ LET position == Obj(threads[th].position)
       IN  /\ transactions' = Append(transactions,
                 [ type           |-> "close",
                   ticker         |-> position.ticker,
                   quantity       |-> position.quantity,
                   price          |-> threads[th].price,
                   timestamp      |-> threads[th].time,
                   value          |-> position.quantity * threads[th].price,
                   pnl            |-> position.pnl,
                   pnl_percentage |-> position.pnl_percentage ])
    /\ Goto(th, "format_line")
    /\ UNCHANGED <<cash, positions, closed_positions, equity_curve, trade_log,
                   trailing, ops, prev_price, exec_vars, data_collector>>

\* close_position: the f-string of the trade_logger line, which reads the
\* position again, after the logger.info call
ThreadFormatLine(th) ==
    /\ threads[th].pc = "format_line"
    /\ LET position == Obj(threads[th].position)
       IN  threads' = [threads EXCEPT
                          ![th].line = <<"CLOSE", position.ticker,
                                         position.quantity, threads[th].price,
                                         threads[th].time, position.pnl,
                                         position.pnl_percentage>>,
                          ![th].pc   = "log"]
    /\ UNCHANGED <<cash, positions, closed_positions, equity_curve,
                   transactions, trade_log, trailing, ops, prev_price, exec_vars,
                   data_collector>>

\* close_position: trade_logger.info(line) writes the formatted line
ThreadLog(th) ==
    /\ threads[th].pc = "log"
    /\ trade_log' = Append(trade_log, threads[th].line)
    /\ Goto(th, "del")
    /\ UNCHANGED <<cash, positions, closed_positions, equity_curve,
                   transactions, trailing, ops, prev_price, exec_vars,
                   data_collector>>

\* close_position: del self.positions[ticker]: KeyError when it is gone
ThreadDel(th) ==
    /\ threads[th].pc = "del"
    /\ IF HasKey(positions, threads[th].ticker)
       THEN /\ positions' = DictDel(positions, threads[th].ticker)
            /\ Goto(th, "done")
       ELSE /\ UNCHANGED positions
            /\ Goto(th, "error")
    /\ UNCHANGED <<cash, closed_positions, equity_curve, transactions,
                   trade_log, trailing, ops, prev_price, exec_vars, data_collector>>

NextConc ==
    \E th \in Threads :
        \/ ThreadCall(th)
        \/ ThreadCheck(th)
        \/ ThreadLoad(th)
        \/ ThreadExits(th)
        \/ ThreadTrail(th)
        \/ ThreadStoreStop(th)
        \/ ThreadClose(th)
        \/ ThreadCash(th)
        \/ ThreadAppendClosed(th)
        \/ ThreadAppendTx(th)
        \/ ThreadFormatLine(th)
        \/ ThreadLog(th)
        \/ ThreadDel(th)

SpecConc == InitConc /\ [][NextConc]_vars

\* --------------------------------------------------------------------
\* The order pipeline: signal -> calculate_position_size -> create_order ->
\* execute_order, as start_platform and the platform tester drive it, and the
\* three components called directly.  ops holds one record per component
\* call.

SizeRec(confidence, current_price, position_size) ==
    [ op |-> "calculate_position_size", confidence |-> confidence,
      current_price |-> current_price, result |-> position_size ]

CreateRec(self, spec, made) ==
    [ op |-> "create_order", spec |-> spec, error |-> made.error,
      order_id |-> made.order,
      status |-> IF made.order = None THEN "none"
                 ELSE OrderById(made.self, made.order).status,
      unchanged |-> made.self = self ]

ExecRec(order, result) ==
    [ op |-> "execute_order", order_id |-> order.order_id,
      side |-> order.side, type |-> order.type,
      quantity |-> order.quantity, status_before |-> order.status,
      attempts |-> result.attempts, result |-> result.status,
      fill |-> result.fill, error |-> result.error ]

PollRec(order, event, status) ==
    [ op |-> "poll_order", order_id |-> order.order_id, event |-> event,
      status_before |-> order.status, result |-> status ]

InitExec ==
    /\ cash = NewPortfolio.cash
    /\ positions = NewPortfolio.positions
    /\ closed_positions = NewPortfolio.closed_positions
    /\ equity_curve = NewPortfolio.equity_curve
    /\ transactions = NewPortfolio.transactions
    /\ trade_log = NewPortfolio.trade_log
    /\ trailing = FALSE
    /\ ops = << >>
    /\ prev_price = [t \in Tickers |-> None]
    /\ threads = IdleThreads
    /\ risk_manager = RiskManager(max_risk_percent)
    /\ order_manager = OrderManager
    /\ trading_executor \in
          {TradingExecutor("paper", broker) : broker \in PaperScripts}
             \cup {[TradingExecutor("live", broker) EXCEPT !.max_retries = n] :
                      broker \in BrokerScripts, n \in RetryLimits}
    /\ data_collector = DataCollector(DATA_SOURCES, ERROR_HANDLING, TRUE)

\* a direct call of risk_manager.calculate_position_size
CalculatePositionSize ==
    /\ Len(ops) < MaxOps
    /\ \E symbol \in Symbols, input \in SizingInputs :
          ops' = Append(ops,
                    SizeRec(Percent(input[1], 1), input[2],
                            calculate_position_size(risk_manager, symbol, "BUY",
                                                    Percent(input[1], 1),
                                                    input[2])))
    /\ UNCHANGED <<portfolio_vars, exec_vars, data_collector>>

\* one order_manager.create_order call
CreateOrderCall(spec) ==
    LET made == create_order(order_manager, spec)
    IN  /\ order_manager' = made.self
        /\ ops' = Append(ops, CreateRec(order_manager, spec, made))

\* one trading_executor.execute_order call on the i-th tracked order; the
\* Order is one object, so the manager sees the status the call leaves
ExecuteOrderCall(i) ==
    LET order  == order_manager.orders[i]
        result == execute_order(trading_executor, order,
                                LastPrice(order.symbol))
    IN  /\ order_manager' =
              WithStatus(order_manager, order.order_id, result.status)
        /\ ops' = Append(ops, ExecRec(order, result))

\* one later broker event (fill, refusal, timeout, cancellation) for the
\* i-th tracked order
PollOrderCall(i, event) ==
    LET order  == order_manager.orders[i]
        status == StatusAfter(order.status, event)
    IN  /\ order_manager' =
              WithStatus(order_manager, order.order_id, status)
        /\ ops' = Append(ops, PollRec(order, event, status))

\* a direct call of order_manager.create_order
CreateOrder ==
    /\ Len(ops) < MaxOps
    /\ \E spec \in DirectSpecs : CreateOrderCall(spec)
    /\ UNCHANGED <<portfolio_vars, risk_manager, trading_executor, data_collector>>

\* trading_executor.execute_order on an order the manager tracks, whatever
\* its status
ExecuteOrder ==
    /\ Len(ops) < MaxOps
    /\ \E i \in 1..Len(order_manager.orders) : ExecuteOrderCall(i)
    /\ UNCHANGED <<portfolio_vars, risk_manager, trading_executor, data_collector>>

\* a later broker event for an order that was submitted
PollOrder ==
    /\ Len(ops) < MaxOps
    /\ \E i \in 1..Len(order_manager.orders), event \in BrokerEvents :
          /\ order_manager.orders[i].status # "PENDING"
          /\ PollOrderCall(i, event)
    /\ UNCHANGED <<portfolio_vars, risk_manager, trading_executor, data_collector>>

\* one pass of start_platform's loop over the symbols: signal, size, and
\* above the confidence gate create_order and execute_order; an exception
\* ends the pass and is logged
StartPlatform ==
    /\ Len(ops) < MaxOps
    /\ \E symbol \in Symbols, quote \in Quotes :
          LET current_price == quote[1]
              prediction    == quote[2]
              signal        == IF prediction > current_price
                               THEN "BUY" ELSE "SELL"
              confidence    == Confidence(prediction, current_price)
              position_size == calculate_position_size(risk_manager, symbol,
                                   signal, confidence, current_price)
              sized         == SizeRec(confidence, current_price, position_size)
              spec          == OrderSpec(symbol, position_size, signal,
                                         "MARKET", None, None)
              made          == create_order(order_manager, spec)
              created       == CreateRec(order_manager, spec, made)
          IN  IF Below(confidence, min_trade_confidence)
              THEN /\ ops' = Append(ops, sized)
                   /\ UNCHANGED order_manager
              ELSE IF made.error # "none"
              THEN /\ ops' = ops \o <<sized, created>>
                   /\ order_manager' = made.self
              ELSE LET order  == OrderById(made.self, made.order)
                       result == execute_order(trading_executor, order,
                                               current_price)
                   IN  /\ ops' = ops \o <<sized, created, ExecRec(order, result)>>
                       /\ order_manager' =
                             WithStatus(made.self, order.order_id, result.status)
    /\ UNCHANGED <<portfolio_vars, risk_manager, trading_executor, data_collector>>

\* one pass of PlatformTester.test_end_to_end_workflow's loop: signal, size,
\* then the order dict goes straight to execute_order
TestEndToEndWorkflow ==
    /\ Len(ops) < MaxOps
    /\ \E symbol \in Symbols, quote \in Quotes :
          LET current_price == quote[1]
              prediction    == quote[2]
              signal        == IF prediction > current_price
                               THEN "BUY" ELSE "SELL"
              confidence    == Confidence(prediction, current_price)
              position_size == calculate_position_size(risk_manager, symbol,
                                   signal, confidence, current_price)
              order         == OrderSpec(symbol, position_size, signal,
                                         "MARKET", None, None)
              order_result  == execute_order(trading_executor, order,
                                             current_price)
          IN  ops' = ops \o << SizeRec(confidence, current_price, position_size),
                               ExecRec(order, order_result) >>
    /\ UNCHANGED <<portfolio_vars, exec_vars, data_collector>>

\* one pass of PlatformTester.test_trading_execution's loop: a buy and a
\* sell order dict of 10 shares, each handed straight to execute_order
TestTradingExecution ==
    /\ Len(ops) < MaxOps
    /\ \E symbol \in Symbols :
          LET buy_order   == OrderSpec(symbol, 10, "BUY", "MARKET", None, None)
              buy_result  == execute_order(trading_executor, buy_order,
                                           LastPrice(symbol))
              sell_order  == OrderSpec(symbol, 10, "SELL", "MARKET", None, None)
              sell_result == execute_order(trading_executor, sell_order,
                                           LastPrice(symbol))
          IN  ops' = ops \o << ExecRec(buy_order, buy_result),
                               ExecRec(sell_order, sell_result) >>
    /\ UNCHANGED <<portfolio_vars, exec_vars, data_collector>>

NextExec ==
    \/ TestTradingExecution
    \/ CalculatePositionSize
    \/ CreateOrder
    \/ ExecuteOrder
    \/ PollOrder
    \/ StartPlatform
    \/ TestEndToEndWorkflow

SpecExec == InitExec /\ [][NextExec]_vars

\* ------------------------------------------------ the life of an order
\* Orders followed from creation through execute_order calls and broker
\* events for MaxLifeOps calls, under every executor of InitExec.

\* order_manager.create_order with a valid spec
LifeCreateOrder ==
    /\ Len(ops) < MaxLifeOps
    /\ \E spec \in {d \in DirectSpecs : ValidSpec(d)} : CreateOrderCall(spec)
    /\ UNCHANGED <<portfolio_vars, risk_manager, trading_executor, data_collector>>

\* trading_executor.execute_order on a tracked order, whatever its status
LifeExecuteOrder ==
    /\ Len(ops) < MaxLifeOps
    /\ \E i \in 1..Len(order_manager.orders) : ExecuteOrderCall(i)
    /\ UNCHANGED <<portfolio_vars, risk_manager, trading_executor, data_collector>>

\* a later broker event for an order that was submitted
LifePollOrder ==
    /\ Len(ops) < MaxLifeOps
    /\ \E i \in 1..Len(order_manager.orders), event \in BrokerEvents :
          /\ order_manager.orders[i].status # "PENDING"
          /\ PollOrderCall(i, event)
    /\ UNCHANGED <<portfolio_vars, risk_manager, trading_executor, data_collector>>

NextLife ==
    \/ LifeCreateOrder
    \/ LifeExecuteOrder
    \/ LifePollOrder

SpecLife == InitExec /\ [][NextLife]_vars

\* ------------------------------------------------ _fetch_ticker_data
\* One call of DataCollector._fetch_ticker_data, step by step, for every
\* configuration of sources, retry limit and fallback switch, against
\* fetchers that return data, return None or raise.
InitFetch ==
    /\ cash = NewPortfolio.cash
    /\ positions = NewPortfolio.positions
    /\ closed_positions = NewPortfolio.closed_positions
    /\ equity_curve = NewPortfolio.equity_curve
    /\ transactions = NewPortfolio.transactions
    /\ trade_log = NewPortfolio.trade_log
    /\ trailing = FALSE
    /\ ops = << >>
    /\ prev_price = [t \in Tickers |-> None]
    /\ threads = IdleThreads
    /\ risk_manager = RiskManager(max_risk_percent)
    /\ order_manager = OrderManager
    /\ trading_executor = TradingExecutor("paper", <<"fill">>)
    /\ \E primary \in SourceNames, secondary \in SourceNames,
          n \in RetryCounts, fallback_source \in BOOLEAN,
          yahoo_client \in BOOLEAN :
          data_collector =
              DataCollector([primary |-> primary, secondary |-> secondary],
                            [ERROR_HANDLING EXCEPT
                                !.max_retries = n,
                                !.fallback_source = fallback_source],
                            yahoo_client)

\* collect_data submits _fetch_ticker_data for a ticker
FetchTickerData ==
    /\ data_collector.pc = "idle"
    /\ data_collector' = fetch_ticker_data(data_collector)
    /\ UNCHANGED <<portfolio_vars, ops, exec_vars>>

PrimaryAttempt ==
    /\ data_collector.pc = "primary"
    /\ \E outcome \in FetchOutcomes(data_collector.data_sources.primary) :
          data_collector' = primary_attempt(data_collector, outcome)
    /\ UNCHANGED <<portfolio_vars, ops, exec_vars>>

Fallback ==
    /\ data_collector.pc = "fallback"
    /\ \E outcome \in FetchOutcomes(data_collector.data_sources.secondary) :
          data_collector' = fallback(data_collector, outcome)
    /\ UNCHANGED <<portfolio_vars, ops, exec_vars>>

NextFetch ==
    \/ FetchTickerData
    \/ PrimaryAttempt
    \/ Fallback

SpecFetch == InitFetch /\ [][NextFetch]_vars

\* --------------------------------------------------------------------
\* Properties
\* --------------------------------------------------------------------

\* the call the step just made, read from the call history
Called(name) ==
    /\ Len(ops') = Len(ops) + 1
    /\ ops'[Len(ops')].op = name

Arg == ops'[Len(ops')]

LastOp == ops[Len(ops)]

RECURSIVE SumPnl(_, _)
SumPnl(closed, n) ==
    IF n = 0 THEN 0 ELSE SumPnl(closed, n - 1) + closed[n].pnl

RECURSIVE OpenCost(_, _)
OpenCost(d, n) ==
    IF n = 0 THEN 0 ELSE OpenCost(d, n - 1) + d[n].entry_price * d[n].quantity

\* no add_position so far was made for a ticker that was open at the time
NoDoubleOpen ==
    \A i \in 1..Len(ops) : ops[i].op = "add_position" => ~ops[i].held

\* C1: as long as no ticker was opened while already open, cash equals
\* initial_capital plus the realized pnl of the closed positions minus the
\* entry cost (entry_price * quantity) of the open positions.
C1_CashReconciles ==
    NoDoubleOpen =>
        cash = initial_capital + SumPnl(closed_positions, Len(closed_positions))
                               - OpenCost(positions, Len(positions))

\* a position closed at a profit or loss while another is still open
C1_Witness ==
    /\ NoDoubleOpen
    /\ Len(positions) >= 1
    /\ Len(closed_positions) >= 1
    /\ closed_positions[1].pnl # 0

\* C2: add_position for a ticker that is already open is rejected and leaves
\* cash, the open position, closed_positions and transactions unchanged.
C2_DuplicateOpenRejected ==
    [][ (Called("add_position") /\ HasKey(positions, Arg.ticker))
            => UNCHANGED <<cash, positions, closed_positions, transactions>> ]_vars

\* C3: close_position and update_position for a ticker that is not open
\* change nothing; and after close_position the ticker is not open, so a
\* second close in a row is such a no-op.
C3_AbsentTickerNoOp ==
    [][ /\ ( (Called("close_position") \/ Called("update_position"))
            /\ ~HasKey(positions, Arg.ticker) )
              => UNCHANGED <<cash, positions, closed_positions, transactions,
                             equity_curve>>
        /\ Called("close_position") => ~HasKey(positions', Arg.ticker) ]_vars

\* the same open ticker closed twice in a row
C3_Witness ==
    /\ Len(ops) >= 2
    /\ LastOp.op = "close_position"
    /\ ops[Len(ops) - 1].op = "close_position"
    /\ ops[Len(ops) - 1].ticker = LastOp.ticker
    /\ ops[Len(ops) - 1].held
    /\ ~LastOp.held
    /\ Len(closed_positions) = 1

\* C4: update_position on a long position with a stop and no take-profit
\* closes it exactly when current_price <= stop_loss.
C4_StopLossBoundary ==
    [][ ( /\ Called("update_position")
          /\ HasKey(positions, Arg.ticker)
          /\ Get(positions, Arg.ticker).quantity > 0
          /\ Get(positions, Arg.ticker).stop_loss # None
          /\ Get(positions, Arg.ticker).take_profit = None )
        => ( ~HasKey(positions', Arg.ticker)
               <=> Arg.price * PctDen <= Get(positions, Arg.ticker).stop_loss ) ]_vars

\* a long position closed by an update at exactly its stop level
C4_Witness ==
    /\ Len(ops) >= 1
    /\ LastOp.op = "update_position"
    /\ LastOp.held
    /\ Len(closed_positions) >= 1
    /\ LET p == closed_positions[Len(closed_positions)]
       IN  /\ p.ticker = LastOp.ticker
           /\ p.quantity > 0
           /\ p.take_profit = None
           /\ p.stop_loss = LastOp.price * PctDen
           /\ p.exit_price = LastOp.price

\* C5: within one update_position call, a short is closed when
\* current_price >= stop_loss, a long when current_price >= take_profit and
\* a short when current_price <= take_profit.
C5_SymmetricExits ==
    [][ ( Called("update_position") /\ HasKey(positions, Arg.ticker) )
        => LET p == Get(positions, Arg.ticker)
               hit == \/ /\ p.quantity < 0
                         /\ p.stop_loss # None
                         /\ Arg.price * PctDen >= p.stop_loss
                      \/ /\ p.quantity > 0
                         /\ p.take_profit # None
                         /\ Arg.price >= p.take_profit
                      \/ /\ p.quantity < 0
                         /\ p.take_profit # None
                         /\ Arg.price <= p.take_profit
           IN  hit => /\ ~HasKey(positions', Arg.ticker)
                      /\ Len(closed_positions') = Len(closed_positions) + 1
                      /\ closed_positions'[Len(closed_positions')].entry_time
                            = p.entry_time ]_vars

\* a short position closed by update_position at its take-profit
C5_Witness ==
    /\ Len(ops) >= 1
    /\ LastOp.op = "update_position"
    /\ LastOp.held
    /\ Len(closed_positions) >= 1
    /\ LET p == closed_positions[Len(closed_positions)]
       IN  /\ p.ticker = LastOp.ticker
           /\ p.quantity < 0
           /\ p.take_profit # None
           /\ p.exit_price <= p.take_profit
           /\ p.exit_time = Len(ops)

\* C6: while a position stays open its stop_loss never loosens: it does not
\* decrease for a long position and does not increase for a short one.
C6_StopNeverLoosens ==
    [][ \A t \in Tickers :
          ( /\ HasKey(positions, t)
            /\ HasKey(positions', t)
            /\ Get(positions', t).entry_time = Get(positions, t).entry_time
            /\ Get(positions, t).stop_loss # None )
          => LET a == Get(positions, t)
                 b == Get(positions', t)
             IN  /\ b.stop_loss # None
                 /\ a.quantity > 0 => b.stop_loss >= a.stop_loss
                 /\ a.quantity < 0 => b.stop_loss <= a.stop_loss ]_vars

\* an open long position whose stop was raised by the trailing rule, then
\* updated again at a lower price
C6_Witness ==
    /\ Len(ops) >= 3
    /\ LastOp.op = "update_position"
    /\ ops[Len(ops) - 1].op = "update_position"
    /\ ops[Len(ops) - 1].ticker = LastOp.ticker
    /\ HasKey(positions, LastOp.ticker)
    /\ LET p == Get(positions, LastOp.ticker)
       IN  /\ p.quantity > 0
           /\ p.entry_time < Len(ops) - 1
           /\ p.stop_loss = ops[Len(ops) - 1].price * (PctDen - PctNum)
           /\ LastOp.price < ops[Len(ops) - 1].price

\* the price an update is compared with: that of the previous update of the
\* position, or its entry price on the first update
RefPrice(t) ==
    IF prev_price[t] = None
    THEN Get(positions, t).entry_price
    ELSE prev_price[t]

\* the update_position call of this step is on an open long position that
\* holds a stop, with trailing stops enabled, and leaves it open
TrailingLongUpdate ==
    /\ Called("update_position")
    /\ trailing
    /\ HasKey(positions, Arg.ticker)
    /\ Get(positions, Arg.ticker).quantity > 0
    /\ Get(positions, Arg.ticker).stop_loss # None
    /\ HasKey(positions', Arg.ticker)

\* C7 as stated: an update of a long position at a price below that of the
\* previous update, or below the entry price on the first update, never
\* changes the stored stop_loss.
C7_NoUpdateOnFallingPrice ==
    [][ ( TrailingLongUpdate /\ Arg.price < RefPrice(Arg.ticker) )
        => Get(positions', Arg.ticker).stop_loss
             = Get(positions, Arg.ticker).stop_loss ]_vars

\* C7 amended: an update of a long position at a price below that of the
\* previous update of that position never changes the stored stop_loss.
C7_NoUpdateBelowPreviousUpdate ==
    [][ ( /\ TrailingLongUpdate
          /\ prev_price[Arg.ticker] # None
          /\ Arg.price < prev_price[Arg.ticker] )
        => Get(positions', Arg.ticker).stop_loss
             = Get(positions, Arg.ticker).stop_loss ]_vars

\* a long position, trailing enabled, updated twice, the second time at a
\* lower price that does not stop it out
C7_Witness ==
    /\ trailing
    /\ Len(ops) >= 3
    /\ LastOp.op = "update_position"
    /\ ops[Len(ops) - 1].op = "update_position"
    /\ ops[Len(ops) - 1].ticker = LastOp.ticker
    /\ ops[Len(ops) - 1].held
    /\ LastOp.price < ops[Len(ops) - 1].price
    /\ HasKey(positions, LastOp.ticker)
    /\ Get(positions, LastOp.ticker).quantity > 0
    /\ Get(positions, LastOp.ticker).stop_loss # None
    /\ Get(positions, LastOp.ticker).entry_time < Len(ops) - 1

\* C8: close_position on an open ticker sets pnl = (exit - entry) * quantity,
\* credits cash by quantity * exit_price, appends the position to
\* closed_positions, removes the ticker from the open map and appends one
\* "close" transaction carrying that pnl.
C8_CloseEffects ==
    [][ ( Called("close_position") /\ HasKey(positions, Arg.ticker) )
        => LET p    == Get(positions, Arg.ticker)
               last == closed_positions'[Len(closed_positions')]
               tx   == transactions'[Len(transactions')]
           IN  /\ closed_positions' = Append(closed_positions, last)
               /\ last.ticker = Arg.ticker
               /\ last.quantity = p.quantity
               /\ last.entry_price = p.entry_price
               /\ last.entry_time = p.entry_time
               /\ last.exit_price = Arg.price
               /\ last.status = "closed"
               /\ last.pnl = (Arg.price - p.entry_price) * p.quantity
               /\ cash' = cash + p.quantity * Arg.price
               /\ ~HasKey(positions', Arg.ticker)
               /\ Len(positions') = Len(positions) - 1
               /\ \A t \in Tickers \ {Arg.ticker} :
                     /\ HasKey(positions', t) <=> HasKey(positions, t)
                     /\ HasKey(positions, t)
                           => Get(positions', t) = Get(positions, t)
               /\ transactions' = Append(transactions, tx)
               /\ tx.type = "close"
               /\ tx.ticker = Arg.ticker
               /\ tx.pnl = last.pnl ]_vars

\* a short position closed by close_position at a loss while another
\* ticker stays open
C8_Witness ==
    /\ Len(ops) >= 3
    /\ LastOp.op = "close_position"
    /\ LastOp.held
    /\ Len(positions) = 1
    /\ Len(closed_positions) = 1
    /\ closed_positions[1].quantity < 0
    /\ closed_positions[1].pnl < 0

\* the first call of the scenario: add_position(long AAPL, 10 at 150, stop 145)
C9_Opened ==
    /\ Len(ops) >= 1
    /\ ops[1].op = "add_position"
    /\ ops[1].position = Position("AAPL", 10, 150, 1, 145, None)

\* the second call of the scenario: update_position(AAPL, 140)
C9_Updated ==
    /\ C9_Opened
    /\ Len(ops) >= 2
    /\ ops[2].op = "update_position"
    /\ ops[2].ticker = "AAPL"
    /\ ops[2].price = 140

\* C9: from initial_capital 100000, opening long AAPL 10 at 150 with stop 145
\* leaves cash 98500; update_position(AAPL, 140) then closes it at 140, with
\* cash 99900, realized pnl -100 and AAPL no longer open.
C9_Scenario ==
    /\ (C9_Opened /\ Len(ops) = 1) => cash = 98500
    /\ (C9_Updated /\ Len(ops) = 2)
         => /\ cash = 99900
            /\ ~HasKey(positions, "AAPL")
            /\ Len(closed_positions) = 1
            /\ closed_positions[1].ticker = "AAPL"
            /\ closed_positions[1].exit_price = 140
            /\ closed_positions[1].pnl = -100

\* the scenario has run to its end
C9_Witness ==
    /\ C9_Updated
    /\ Len(ops) = 2
    /\ initial_capital = 100000

\* the sum of f[x] over the x in S
RECURSIVE SumF(_, _)
SumF(f, S) ==
    IF S = {}
    THEN 0
    ELSE LET x == CHOOSE y \in S : TRUE
         IN  f[x] + SumF(f, S \ {x})

\* market value, at the prices cp, of the open positions of d priced in cp
OpenValue(d, cp) ==
    SumF([t \in Tickers |-> IF HasKey(d, t) /\ t \in DOMAIN cp
                            THEN Get(d, t).quantity * cp[t]
                            ELSE 0],
         Tickers)

\* number of "close" transactions of ticker t in the log tx
CloseCount(tx, t) ==
    Cardinality({i \in 1..Len(tx) : tx[i].type = "close" /\ tx[i].ticker = t})

\* C10: update_portfolio(current_prices, t) applies update_position once to
\* every ticker open at the start and priced in current_prices, leaves the
\* other tickers alone, and appends one equity-curve sample whose
\* portfolio_value is the cash after the exits plus quantity * current price
\* of the positions still open, and whose cash is the cash after the exits.
C10_UpdatePortfolio ==
    [][ Called("update_portfolio")
        => LET cp     == Arg.prices
               sample == equity_curve'[Len(equity_curve')]
               one    == [t \in Tickers |->
                            IF HasKey(positions, t) /\ t \in DOMAIN cp
                            THEN update_position(Self, t, cp[t], Len(ops) + 1,
                                                 trailing)
                            ELSE Self]
           IN  /\ equity_curve' = Append(equity_curve, sample)
               /\ sample.timestamp = Len(ops) + 1
               /\ sample.cash = cash'
               /\ sample.portfolio_value = cash' + OpenValue(positions', cp)
               /\ \A t \in Tickers :
                     /\ HasKey(positions', t) <=> HasKey(one[t].positions, t)
                     /\ HasKey(positions', t)
                          => Get(positions', t) = Get(one[t].positions, t)
                     /\ CloseCount(transactions', t) - CloseCount(transactions, t)
                          = Len(one[t].transactions) - Len(transactions)
                     /\ Len(one[t].closed_positions) > Len(closed_positions)
                          => \E i \in (Len(closed_positions) + 1)
                                        ..Len(closed_positions') :
                                closed_positions'[i]
                                  = one[t].closed_positions[
                                        Len(one[t].closed_positions)]
               /\ Len(transactions') - Len(transactions)
                    = Len(positions) - Len(positions')
               /\ Len(closed_positions') - Len(closed_positions)
                    = Len(positions) - Len(positions')
               /\ cash' = cash + SumF([t \in Tickers |-> one[t].cash - cash],
                                      Tickers) ]_vars

\* an update_portfolio call that priced two open tickers, closed one of
\* them and left the other open
C10_Witness ==
    /\ Len(ops) = 3
    /\ LastOp.op = "update_portfolio"
    /\ DOMAIN LastOp.prices = Tickers
    /\ ops[1].op = "add_position"
    /\ ops[2].op = "add_position"
    /\ ops[1].ticker # ops[2].ticker
    /\ Len(positions) = 1
    /\ Len(closed_positions) = 1
    /\ Len(equity_curve) = 1
    /\ equity_curve[1].cash = cash
    /\ equity_curve[1].portfolio_value # cash

\* the position of ticker t that is open now is the one that is open next
SamePosition(t) ==
    /\ HasKey(positions, t)
    /\ HasKey(positions', t)
    /\ Get(positions', t).entry_time = Get(positions, t).entry_time

\* the call of this step is one that reaches Portfolio.close_position
ClosingCall ==
    \/ Called("close_position")
    \/ Called("update_position")
    \/ Called("update_portfolio")

\* every open position has status "open", every closed one "closed"
StatusMatchesPlace ==
    /\ \A i \in 1..Len(positions) : positions[i].status = "open"
    /\ \A i \in 1..Len(closed_positions) : closed_positions[i].status = "closed"

\* C11: positions in the open map have status "open" and those in
\* closed_positions "closed"; a status changes only from open to closed and
\* only in a call that reaches close_position; a closed position stays closed
\* (its record in closed_positions never changes).
C11_StatusLifecycle ==
    /\ []StatusMatchesPlace
    /\ [][ /\ \A i \in 1..Len(closed_positions) :
                /\ i <= Len(closed_positions')
                /\ closed_positions'[i] = closed_positions[i]
           /\ \A i \in (Len(closed_positions) + 1)..Len(closed_positions') :
                /\ ClosingCall
                /\ closed_positions'[i].status = "closed"
                /\ HasKey(positions, closed_positions'[i].ticker)
                /\ Get(positions, closed_positions'[i].ticker).status = "open"
                /\ Get(positions, closed_positions'[i].ticker).entry_time
                     = closed_positions'[i].entry_time
                /\ ~SamePosition(closed_positions'[i].ticker)
           /\ \A t \in Tickers :
                SamePosition(t) => Get(positions', t).status = "open" ]_vars

\* a position closed by a stop or target check of update_position, next to
\* a position that is still open
C11_Witness ==
    /\ Len(ops) >= 1
    /\ LastOp.op = "update_position"
    /\ Len(closed_positions) = 1
    /\ closed_positions[1].status = "closed"
    /\ closed_positions[1].exit_time = Len(ops)
    /\ Len(positions) = 1
    /\ positions[1].status = "open"

\* s is a prefix of t
IsPrefix(s, t) ==
    /\ Len(s) <= Len(t)
    /\ \A i \in 1..Len(s) : t[i] = s[i]

\* C12: closed_positions, transactions and equity_curve are append-only:
\* every operation leaves the old contents as a prefix of the new contents.
C12_AppendOnly ==
    [][ /\ IsPrefix(closed_positions, closed_positions')
        /\ IsPrefix(transactions, transactions')
        /\ IsPrefix(equity_curve, equity_curve') ]_vars

\* all three lists hold something and the latest call appended to one that
\* was not empty
C12_Witness ==
    /\ Len(ops) = 3
    /\ LastOp.op = "update_portfolio"
    /\ Len(equity_curve) = 2
    /\ Len(transactions) >= 2
    /\ Len(closed_positions) >= 1

\* the transaction tx and the trade-log line ln record the same event
SameEvent(tx, ln) ==
    /\ tx.type = "open" <=> ln[1] = "OPEN"
    /\ tx.type = "close" <=> ln[1] = "CLOSE"
    /\ tx.type \in {"open", "close"}
    /\ ln[2] = tx.ticker
    /\ ln[3] = tx.quantity
    /\ ln[4] = tx.price
    /\ ln[5] = tx.timestamp
    /\ tx.type = "close" => ln[6] = tx.pnl /\ ln[7] = tx.pnl_percentage

\* C13: every open appends one "open" transaction and one OPEN line, every
\* close one "close" transaction and one CLOSE line, in the same order; a
\* call that is a no-op appends neither.
C13_TradeLogMirrorsTransactions ==
    [][ LET n == Len(transactions)
            k == Len(transactions') - n
        IN  /\ Len(trade_log) = n
            /\ Len(trade_log') = n + k
            /\ IsPrefix(trade_log, trade_log')
            /\ \A i \in (n + 1)..(n + k) :
                  SameEvent(transactions'[i], trade_log'[i])
            /\ Called("add_position")
                 => k = 1 /\ transactions'[n + 1].type = "open"
            /\ (Called("close_position") /\ Arg.held)
                 => k = 1 /\ transactions'[n + 1].type = "close"
            /\ ((Called("close_position") \/ Called("update_position"))
                  /\ ~Arg.held)
                 => k = 0
            /\ (Called("update_position") \/ Called("update_portfolio"))
                 => /\ k = Len(positions) - Len(positions')
                    /\ \A i \in (n + 1)..(n + k) :
                          transactions'[i].type = "close" ]_vars

\* an open and a close were logged, and a no-op call followed
C13_Witness ==
    /\ Len(ops) = 3
    /\ LastOp.op = "close_position"
    /\ ~LastOp.held
    /\ Len(trade_log) = 2
    /\ trade_log[1][1] = "OPEN"
    /\ trade_log[2][1] = "CLOSE"
    /\ transactions[2].type = "close"

\* the call of this step is one of the three read accessors
AccessorCall ==
    \/ Called("get_portfolio_value")
    \/ Called("get_position_value")
    \/ Called("get_position_exposure")

\* C14: get_portfolio_value, get_position_value and get_position_exposure
\* leave cash, the open positions (stops and targets included),
\* closed_positions, transactions and equity_curve unchanged.
C14_AccessorsArePure ==
    [][ AccessorCall
        => UNCHANGED <<cash, positions, closed_positions, transactions,
                       equity_curve>> ]_vars

\* get_portfolio_value returned a value that differs from cash: it priced an
\* open position
C14_Witness ==
    /\ Len(ops) >= 2
    /\ LastOp.op = "get_portfolio_value"
    /\ Len(positions) >= 1
    /\ LastOp.result # cash
    /\ cash # initial_capital

\* the one position of the shared Portfolio, as it was opened
ConcOpened == transactions[1]

\* C15: when two callers run close_position / update_position on the same
\* Portfolio concurrently, the position is closed at most once: it is in
\* closed_positions at most once, at most one "close" transaction is logged
\* and cash is credited for it at most once.
C15_ClosedOnceUnderConcurrency ==
    /\ Len(closed_positions) <= 1
    /\ CloseCount(transactions, ConcOpened.ticker) <= 1
    /\ \/ cash = initial_capital - ConcOpened.value
       \/ \E p \in Prices :
             cash = initial_capital - ConcOpened.value + ConcOpened.quantity * p

\* the records of the calls of one component
Calls(name) == {i \in 1..Len(ops) : ops[i].op = name}

\* C16: every size calculate_position_size returns is non-negative and its
\* notional, quantity * current_price, is at most max_risk_percent (as a
\* fraction) of the portfolio equity.
C16_SizeWithinRiskBudget ==
    \A i \in Calls("calculate_position_size") :
        /\ ops[i].result >= 0
        /\ ops[i].result * ops[i].current_price * 100
              <= risk_manager.max_risk_percent * risk_manager.equity

\* a positive size was returned, and one more share would pass the budget
C16_Witness ==
    \E i \in Calls("calculate_position_size") :
        /\ ops[i].result > 0
        /\ (ops[i].result + 1) * ops[i].current_price * 100
              > risk_manager.max_risk_percent * risk_manager.equity

\* C17: calculate_position_size returns 0 whenever confidence is at or below
\* the confidence floor, confidence is outside 0..100, or current_price <= 0.
C17_FailsSafeToZero ==
    \A i \in Calls("calculate_position_size") :
        (\/ AtMost(ops[i].confidence, confidence_floor)
         \/ Below(ops[i].confidence, 0)
         \/ Above(ops[i].confidence, 100)
         \/ ops[i].current_price <= 0)
            => ops[i].result = 0

\* it was called at the floor, above 100 and with a price of 0
C17_Witness ==
    /\ \E i \in Calls("calculate_position_size") :
          /\ AtMost(ops[i].confidence, confidence_floor)
          /\ ~Below(ops[i].confidence, confidence_floor)
          /\ ops[i].current_price > 0
          /\ ops[i].result = 0
    /\ \E i \in Calls("calculate_position_size") :
          /\ Above(ops[i].confidence, 100)
          /\ ops[i].result = 0
    /\ \E i \in Calls("calculate_position_size") :
          /\ ops[i].current_price <= 0
          /\ ops[i].result = 0

\* C18: create_order rejects a spec with quantity 0, or malformed otherwise,
\* with a validation error and without changing the order manager, and so
\* execute_order is never passed an order with quantity <= 0.
C18_NoZeroQuantityExecuted ==
    /\ \A i \in Calls("create_order") :
          ~ValidSpec(ops[i].spec) =>
              /\ ops[i].error = "ValidationError"
              /\ ops[i].order_id = None
              /\ ops[i].unchanged
    /\ \A i \in Calls("execute_order") : ops[i].quantity > 0

\* C19: every order create_order returns has status Pending and an order_id
\* that no other order of that OrderManager has.
C19_PendingAndUniqueId ==
    /\ \A i \in Calls("create_order") :
          ops[i].error = "none" =>
              /\ ops[i].status = "PENDING"
              /\ ops[i].order_id # None
    /\ \A i, j \in Calls("create_order") :
          (i # j /\ ops[i].error = "none" /\ ops[j].error = "none")
              => ops[i].order_id # ops[j].order_id
    /\ \A i, j \in 1..Len(order_manager.orders) :
          i # j => order_manager.orders[i].order_id
                      # order_manager.orders[j].order_id

\* two create_order calls each returned an order
C19_Witness ==
    /\ Len(order_manager.orders) >= 2
    /\ \E i, j \in Calls("create_order") :
          i # j /\ ops[i].error = "none" /\ ops[j].error = "none"

\* the statuses an order can reach from a status in one or more transitions
\* of Pending -> Open -> {Filled, PartiallyFilled, Rejected, Canceled,
\* Expired}, PartiallyFilled -> {Filled, Canceled}
Reach(status) ==
    CASE status = "PENDING" -> OrderStatus \ {"PENDING"}
      [] status = "OPEN" -> OrderStatus \ {"PENDING", "OPEN"}
      [] status = "PARTIALLY_FILLED" -> {"FILLED", "CANCELED"}
      [] OTHER -> {}

\* the execute_order records the step appends
NewExecs ==
    {i \in Len(ops) + 1 .. Len(ops') : ops'[i].op = "execute_order"}

\* the step's orders: the tracked orders keep their place and id, old(i) to
\* new(i) is allowed for each, and a new order is Pending, or was created
\* Pending and moved on in the same step
OrdersStep(Allowed(_, _)) ==
    /\ Len(order_manager'.orders) >= Len(order_manager.orders)
    /\ \A i \in 1..Len(order_manager'.orders) :
          LET new == order_manager'.orders[i]
          IN  IF i <= Len(order_manager.orders)
              THEN LET old == order_manager.orders[i]
                   IN  /\ new.order_id = old.order_id
                       /\ Allowed(old, new)
              ELSE \/ new.status = "PENDING"
                   \/ /\ new.status \in Reach("PENDING")
                      /\ \E k \in Calls("create_order")' :
                            /\ ops'[k].order_id = new.order_id
                            /\ ops'[k].status = "PENDING"

\* the order keeps its status or moves along the lifecycle
AlongLifecycle(old, new) ==
    \/ new.status = old.status
    \/ new.status \in Reach(old.status)

\* the step is an execute_order call that submits the PartiallyFilled order
\* again and leaves it Open or Rejected
Resubmitted(old, new) ==
    /\ old.status = "PARTIALLY_FILLED"
    /\ new.status \in {"OPEN", "REJECTED"}
    /\ \E k \in NewExecs :
          /\ ops'[k].order_id = old.order_id
          /\ ops'[k].status_before = "PARTIALLY_FILLED"
          /\ ops'[k].result = new.status

AlongLifecycleOrResubmitted(old, new) ==
    AlongLifecycle(old, new) \/ Resubmitted(old, new)

AlwaysTransient(broker) ==
    \A k \in 1..Len(broker) : broker[k] = "transient"

\* the order of an execute_order record, as the manager tracks it now
Tracked(i) == OrderById(order_manager, ops[i].order_id)

\* C21: against a broker that raises a transient error on every submit, an
\* execute_order with max_retries = N makes exactly N submits and ends with
\* the order Rejected and the failure reported in the result.
C21_ExactlyMaxRetriesAttempts ==
    \A i \in Calls("execute_order") :
        (/\ trading_executor.mode = "live"
         /\ AlwaysTransient(trading_executor.broker)
         /\ ops[i].status_before \notin TerminalStatus)
            => /\ ops[i].attempts = trading_executor.max_retries
               /\ ops[i].result = "REJECTED"
               /\ ops[i].error = "BrokerError"
               /\ ops[i].order_id # None => Tracked(i).status = "REJECTED"

\* a created order was executed against the always-failing broker with
\* max_retries = 3
C21_Witness ==
    \E i \in Calls("execute_order") :
        /\ trading_executor.mode = "live"
        /\ AlwaysTransient(trading_executor.broker)
        /\ trading_executor.max_retries = max_retries
        /\ ops[i].order_id # None
        /\ ops[i].status_before = "PENDING"
        /\ ops[i].attempts = max_retries

\* C22: a fatal broker error rejects the order at once: one submit, status
\* Rejected, the fatal error reported; a transient error on the first submit
\* is followed by a second submit whenever max_retries allows one.
C22_FatalRejectsImmediately ==
    \A i \in Calls("execute_order") :
        (/\ trading_executor.mode = "live"
         /\ ops[i].status_before \notin TerminalStatus)
            => /\ trading_executor.broker[1] = "fatal" =>
                    /\ ops[i].attempts = 1
                    /\ ops[i].result = "REJECTED"
                    /\ ops[i].error = "BrokerFatalError"
                    /\ ops[i].order_id # None => Tracked(i).status = "REJECTED"
               /\ (/\ trading_executor.broker[1] = "transient"
                   /\ trading_executor.max_retries > 1)
                      => ops[i].attempts > 1

\* a created order met a fatal error under max_retries = 3
C22_Witness ==
    \E i \in Calls("execute_order") :
        /\ trading_executor.mode = "live"
        /\ trading_executor.broker[1] = "fatal"
        /\ trading_executor.max_retries = max_retries
        /\ ops[i].order_id # None
        /\ ops[i].status_before = "PENDING"
        /\ ops[i].result = "REJECTED"

\* C23: execute_order on an order already Filled, Rejected, Canceled or
\* Expired is a no-op: no broker submit, no FillEvent, the order (and every
\* other order) keeps its status, and the result reports that status.
C23_TerminalExecuteIsNoOp ==
    [][ \A i \in NewExecs :
            ops'[i].status_before \in TerminalStatus
                => /\ ops'[i].attempts = 0
                   /\ ~ops'[i].fill
                   /\ ops'[i].result = ops'[i].status_before
                   /\ order_manager' = order_manager
      ]_vars

\* a live executor was handed an order it had already finished
C23_Witness ==
    \E i \in Calls("execute_order") :
        /\ trading_executor.mode = "live"
        /\ ops[i].order_id # None
        /\ ops[i].status_before \in TerminalStatus
        /\ ops[i].result = ops[i].status_before

\* the broker's answers end in a refusal, a fatal error or exhausted retries
FailurePath ==
    /\ trading_executor.mode = "live"
    /\ Submit(trading_executor, 1).status = "REJECTED"

\* C24: every execute_order call that submits an order (one not already in
\* a terminal status) ends with the order Filled, Rejected, or still Pending
\* or Open; the order manager still tracks the order with the reported
\* status (or one that followed it); and a call on a failure path ends in a
\* terminal status or reports an error.
C24_NothingDropped ==
    \A i \in Calls("execute_order") :
        /\ ops[i].status_before \notin TerminalStatus
              => ops[i].result \in {"FILLED", "REJECTED", "PENDING", "OPEN"}
        /\ ops[i].order_id # None =>
              \/ Tracked(i).status = ops[i].result
              \/ Tracked(i).status \in Reach(ops[i].result)
        /\ (FailurePath /\ ops[i].status_before \notin TerminalStatus)
              => \/ ops[i].result \in TerminalStatus
                 \/ ops[i].error # "none"

\* a created order went down a failure path, and its error was reported
C24_Witness ==
    \E i \in Calls("execute_order") :
        /\ FailurePath
        /\ ops[i].order_id # None
        /\ ops[i].status_before = "PENDING"
        /\ ops[i].error # "none"
        /\ Tracked(i).status = "REJECTED"

\* C28: execute_order is only ever called on an Order that create_order
\* returned (validated, with an id), never on a raw order spec.
C28_OnlyCreatedOrdersExecuted ==
    \A i \in Calls("execute_order") :
        /\ ops[i].order_id # None
        /\ \E k \in Calls("create_order") :
              k < i /\ ops[k].order_id = ops[i].order_id

\* C26: get_position_exposure returns, for the open tickers and no others,
\* quantity * entry_price of the position over cash plus the sum of
\* quantity * entry_price of all open positions (a fraction <<n, d>>).
C26_ExposureAtEntryPrices ==
    [][ Called("get_position_exposure")
        => /\ DOMAIN Arg.result = {positions[i].ticker : i \in 1..Len(positions)}
           /\ \A t \in DOMAIN Arg.result :
                 /\ Arg.result[t][1]
                       = Get(positions, t).quantity * Get(positions, t).entry_price
                 /\ Arg.result[t][2]
                       = cash + OpenCost(positions, Len(positions))
      ]_vars

\* exposures were returned for two open positions, one long and one short
C26_Witness ==
    /\ Len(ops) >= 3
    /\ LastOp.op = "get_position_exposure"
    /\ DOMAIN LastOp.result = Tickers
    /\ \E t, u \in Tickers : LastOp.result[t][1] > 0 /\ LastOp.result[u][1] < 0

\* the number of transactions of one type
TypeCount(tx, type) == Cardinality({i \in 1..Len(tx) : tx[i].type = type})

\* C29: every position handed to add_position is the open position of its
\* ticker or an element of closed_positions, and the 'open' transactions
\* outnumber the 'close' transactions by the number of open positions.
C29_NoPositionLost ==
    /\ \A i \in 1..Len(ops) :
          ops[i].op = "add_position" =>
              \/ /\ HasKey(positions, ops[i].ticker)
                 /\ Get(positions, ops[i].ticker).entry_time
                       = ops[i].position.entry_time
              \/ \E k \in 1..Len(closed_positions) :
                    /\ closed_positions[k].ticker = ops[i].ticker
                    /\ closed_positions[k].entry_time
                          = ops[i].position.entry_time
    /\ TypeCount(transactions, "open") - TypeCount(transactions, "close")
          = Len(positions)

\* the stop-loss and the take-profit condition of a position at a price
\* (stop_loss is stored times PctDen)
StopCondition(position, price) ==
    /\ position.stop_loss # None
    /\ IF position.quantity > 0
       THEN price * PctDen <= position.stop_loss
       ELSE price * PctDen >= position.stop_loss

TargetCondition(position, price) ==
    /\ position.take_profit # None
    /\ IF position.quantity > 0
       THEN price >= position.take_profit
       ELSE price <= position.take_profit

\* C27: an update_position call whose price meets the stop-loss or the
\* take-profit condition (or both) closes the position once: one close
\* transaction, one cash credit, exit price = current_price, and the stop of
\* the closed position is the one it had before the call; a call that meets
\* neither closes nothing and may only move the stop when trailing is on.
C27_ExitOnceThenNoTrailing ==
    [][ (Called("update_position") /\ HasKey(positions, Arg.ticker))
        => LET position == Get(positions, Arg.ticker)
           IN  IF \/ StopCondition(position, Arg.price)
                  \/ TargetCondition(position, Arg.price)
               THEN /\ ~HasKey(positions', Arg.ticker)
                    /\ cash' = cash + position.quantity * Arg.price
                    /\ Len(transactions') = Len(transactions) + 1
                    /\ transactions'[Len(transactions')].type = "close"
                    /\ transactions'[Len(transactions')].price = Arg.price
                    /\ Len(closed_positions') = Len(closed_positions) + 1
                    /\ LET closed == closed_positions'[Len(closed_positions')]
                       IN  /\ closed.exit_price = Arg.price
                           /\ closed.stop_loss = position.stop_loss
                           /\ closed.entry_time = position.entry_time
               ELSE /\ HasKey(positions', Arg.ticker)
                    /\ UNCHANGED <<cash, transactions, closed_positions>>
                    /\ Get(positions', Arg.ticker).stop_loss # position.stop_loss
                          => trailing /\ position.stop_loss # None
      ]_vars

\* an update closed a position at a price that met both its stop-loss and its
\* take-profit, and the ledger holds one close for it
C27_Witness ==
    /\ Len(ops) >= 2
    /\ LastOp.op = "update_position"
    /\ LastOp.held
    /\ Len(closed_positions) = 1
    /\ LET closed == closed_positions[1]
       IN  /\ closed.ticker = LastOp.ticker
           /\ closed.exit_price = LastOp.price
           /\ StopCondition(closed, LastOp.price)
           /\ TargetCondition(closed, LastOp.price)
    /\ TypeCount(transactions, "close") = 1

\* C30: while every position opened so far is long, cash is never negative.
C30_LongOnlyCashNonNegative ==
    (\A i \in 1..Len(transactions) :
        transactions[i].type = "open" => transactions[i].quantity > 0)
        => cash >= 0

\* the call meets an exit condition of the position open for its ticker
ExitTriggered ==
    /\ HasKey(positions, Arg.ticker)
    /\ \/ StopCondition(Get(positions, Arg.ticker), Arg.price)
       \/ TargetCondition(Get(positions, Arg.ticker), Arg.price)

\* C31: an update_position call that triggers no exit leaves cash, the open
\* tickers and their order, every other position, closed_positions,
\* transactions, the trade log and equity_curve unchanged, and changes at
\* most the stop_loss field of the position of its ticker.
C31_UpdateFrame ==
    [][ (Called("update_position") /\ ~ExitTriggered)
        => /\ UNCHANGED <<cash, closed_positions, transactions, trade_log,
                          equity_curve>>
           /\ Keys(positions') = Keys(positions)
           /\ \A i \in 1..Len(positions) :
                 IF positions[i].ticker = Arg.ticker
                 THEN positions'[i] =
                        [positions[i] EXCEPT !.stop_loss = positions'[i].stop_loss]
                 ELSE positions'[i] = positions[i]
      ]_vars

\* with two positions open, an update moved the stop of one of them and
\* closed nothing
C31_Witness ==
    /\ Len(ops) >= 3
    /\ LastOp.op = "update_position"
    /\ LastOp.held
    /\ Len(positions) = 2
    /\ closed_positions = << >>
    /\ LET position == Get(positions, LastOp.ticker)
       IN  /\ position.quantity > 0
           /\ position.stop_loss = LastOp.price * (PctDen - PctNum)

\* C32: when update_position(ticker, p) returns with the position still open
\* and holding a stop, the stop is below p for a long position and above p
\* for a short one (stop_loss is stored times PctDen).
C32_StopOnLosingSide ==
    [][ ( /\ Called("update_position")
          /\ HasKey(positions, Arg.ticker)
          /\ HasKey(positions', Arg.ticker)
          /\ Get(positions', Arg.ticker).stop_loss # None )
        => LET position == Get(positions', Arg.ticker)
           IN  IF position.quantity > 0
               THEN position.stop_loss < Arg.price * PctDen
               ELSE position.stop_loss > Arg.price * PctDen
      ]_vars

\* an update moved the stop of a short position down to its trailing level
C32_Witness ==
    /\ Len(ops) >= 2
    /\ LastOp.op = "update_position"
    /\ LastOp.held
    /\ HasKey(positions, LastOp.ticker)
    /\ LET position == Get(positions, LastOp.ticker)
       IN  /\ position.quantity < 0
           /\ position.stop_loss = LastOp.price * (PctDen + PctNum)
           /\ position.stop_loss > LastOp.price * PctDen

\* C33: a position opened with stop_loss = None has no stop for as long as
\* it is open, whatever update_position and update_portfolio calls are made
\* and whether or not trailing is on; it leaves the open map only through a
\* take-profit or a close_position call (or when add_position stores another
\* position under its ticker).
C33_NoStopAcquired ==
    [][ \A i \in 1..Len(positions) :
            positions[i].stop_loss = None
                => LET t == positions[i].ticker
                   IN  IF /\ HasKey(positions', t)
                          /\ Get(positions', t).entry_time = positions[i].entry_time
                       THEN Get(positions', t).stop_loss = None
                       ELSE \/ Called("close_position") /\ Arg.ticker = t
                            \/ Called("add_position") /\ Arg.ticker = t
                            \/ /\ Called("update_position") /\ Arg.ticker = t
                               /\ TargetCondition(positions[i], Arg.price)
                            \/ /\ Called("update_portfolio")
                               /\ t \in DOMAIN Arg.prices
                               /\ TargetCondition(positions[i], Arg.prices[t])
      ]_vars

\* with trailing on, a position without a stop went through an update that
\* closed nothing and still has no stop
C33_Witness ==
    /\ trailing
    /\ Len(ops) >= 2
    /\ LastOp.op \in {"update_position", "update_portfolio"}
    /\ \E i \in 1..Len(positions) :
          /\ positions[i].stop_loss = None
          /\ prev_price[positions[i].ticker] # None

\* C34: update_portfolio leaves an open position whose ticker is not in
\* current_prices as it was, still open, and the recorded portfolio_value is
\* cash plus the value of the priced open positions only.
C34_UnpricedUntouched ==
    [][ Called("update_portfolio")
        => LET cp     == Arg.prices
               sample == equity_curve'[Len(equity_curve')]
           IN  /\ \A i \in 1..Len(positions) :
                     positions[i].ticker \notin DOMAIN cp
                         => /\ HasKey(positions', positions[i].ticker)
                            /\ Get(positions', positions[i].ticker) = positions[i]
               /\ sample.portfolio_value
                     = cash' + SumF([t \in DOMAIN cp |->
                                       IF HasKey(positions', t)
                                       THEN Get(positions', t).quantity * cp[t]
                                       ELSE 0],
                                    DOMAIN cp)
      ]_vars

\* with two positions open, update_portfolio was given a price for one of
\* them only; both are still open and the sample differs from cash
C34_Witness ==
    /\ Len(ops) = 3
    /\ LastOp.op = "update_portfolio"
    /\ Cardinality(DOMAIN LastOp.prices) = 1
    /\ Len(positions) = 2
    /\ \E i \in 1..2 : /\ positions[i].ticker \notin DOMAIN LastOp.prices
                       /\ positions[i] = ops[i].position
    /\ equity_curve[Len(equity_curve)].portfolio_value # cash

\* C35: the portfolio_value update_portfolio(current_prices, t) records is
\* what get_portfolio_value(current_prices) returns on the portfolio the call
\* leaves behind, and the recorded cash is that portfolio's cash.
C35_SampleMatchesAccessor ==
    [][ Called("update_portfolio")
        => LET sample == equity_curve'[Len(equity_curve')]
           IN  /\ sample.portfolio_value = get_portfolio_value(Self', Arg.prices)
               /\ sample.cash = cash'
      ]_vars

\* an update_portfolio call closed a position, kept another, and left one
\* open position unpriced
C35_Witness ==
    /\ Len(ops) >= 3
    /\ LastOp.op = "update_portfolio"
    /\ Len(positions) >= 1
    /\ \E k \in 1..Len(closed_positions) :
          closed_positions[k].exit_time = Len(ops)
    /\ equity_curve[Len(equity_curve)].cash = cash
    /\ equity_curve[Len(equity_curve)].portfolio_value
          = get_portfolio_value(Self, LastOp.prices)

\* the price maps that price ticker t at p
PricedAt(t, p) ==
    { cp \in UNION { [S -> Prices] : S \in SUBSET Tickers } :
         t \in DOMAIN cp /\ cp[t] = p }

\* C36: a close at price p, by close_position or by a stop-loss or take-profit
\* trigger of update_position or update_portfolio, leaves get_portfolio_value
\* with that ticker priced at p as it was before the close, for long and for
\* short positions.
C36_CloseKeepsValue ==
    [][ /\ ( \/ Called("close_position") /\ HasKey(positions, Arg.ticker)
             \/ Called("update_position") /\ ExitTriggered )
           => \A cp \in PricedAt(Arg.ticker, Arg.price) :
                 get_portfolio_value(Self', cp) = get_portfolio_value(Self, cp)
        /\ Called("update_portfolio")
           => get_portfolio_value(Self', Arg.prices)
                 = get_portfolio_value(Self, Arg.prices)
      ]_vars

\* close_position closed a short position at a price other than its entry
\* price while a long position stayed open
C36_Witness ==
    /\ Len(ops) = 3
    /\ LastOp.op = "close_position"
    /\ LastOp.held
    /\ Len(closed_positions) = 1
    /\ closed_positions[1].quantity < 0
    /\ closed_positions[1].exit_price = LastOp.price
    /\ closed_positions[1].exit_price # closed_positions[1].entry_price
    /\ Len(positions) = 1
    /\ positions[1].quantity > 0
    /\ cash = initial_capital - positions[1].quantity * positions[1].entry_price
                 + closed_positions[1].pnl

Sign(x) == IF x > 0 THEN 1 ELSE IF x < 0 THEN -1 ELSE 0

\* C37: every closed position with entry_price > 0 and a non-zero quantity,
\* long or short, has pnl and pnl_percentage of the same sign.
C37_PnlSignsAgree ==
    \A k \in 1..Len(closed_positions) :
        LET position == closed_positions[k]
        IN  (position.entry_price > 0 /\ position.quantity # 0)
               => Sign(position.pnl) = Sign(position.pnl_percentage)

\* a short position closed above its entry price, at a loss
C37_Witness ==
    \E k \in 1..Len(closed_positions) :
        /\ closed_positions[k].quantity < 0
        /\ closed_positions[k].exit_price > closed_positions[k].entry_price
        /\ closed_positions[k].pnl < 0
        /\ closed_positions[k].pnl_percentage < 0

\* the fetcher calls of the finished _fetch_ticker_data call made at a stage
StageFetches(stage) ==
    Cardinality({i \in 1..Len(data_collector.fetches) :
                    data_collector.fetches[i][1] = stage})

\* C38: _fetch_ticker_data returns after at most max_retries calls of the
\* primary source and at most one call of the secondary source, and with
\* fallback enabled it returns None only after the fallback to the secondary
\* source was entered.
C38_FetchBoundedWithFallback ==
    data_collector.pc = "returned"
        => /\ StageFetches("primary") <= data_collector.error_handling.max_retries
           /\ StageFetches("secondary") <= 1
           /\ ( /\ data_collector.result = "None"
                /\ data_collector.error_handling.fallback_source )
                 => data_collector.fallback_entered

\* the call counts alone: the part of C38 that holds
FetchBounded ==
    /\ StageFetches("primary") <= data_collector.error_handling.max_retries
    /\ StageFetches("secondary") <= 1
    /\ data_collector.attempt <= data_collector.error_handling.max_retries

====
